---- MODULE Spec2Model ----
(***************************************************************************)
(* Input resolution of az-pim-cli (src/src/az_pim_cli/resolver.py):        *)
(* the match engine (_find_matches, _fuzzy_match), the disambiguation      *)
(* paths of InputResolver.resolve, and the TTL candidate cache.            *)
(*                                                                         *)
(* Strings are sequences of one-character strings.  A candidate is an      *)
(* object with an identity (id) and a name; name_extractor reads the name. *)
(* Scores are exact rationals <<numerator, denominator>>; thresholds are   *)
(* percentages (80 stands for 0.8).                                        *)
(***************************************************************************)
EXTENDS Integers, Sequences, FiniteSets, TLC

\* ------------------------------------------------------------------ bounds
MaxCands == 2          \* longest candidate list drawn freely from Names
MaxReads == 2          \* prompt lines read in one interactive selection
MaxTime  == 3          \* last clock value

\* ------------------------------------------------------- program constants
DefaultThreshold  == 80     \* fuzzy_threshold: float = 0.8
SuggestionCutoff  == 40     \* cutoff=0.4 in _get_suggestions
MaxSuggestions    == 3      \* max_suggestions: int = 3
DifflibLimit      == 10     \* n=10 in _fuzzy_match
MaxListed         == 5      \* matches[:5] in _show_multiple_matches_error

\* ------------------------------------------------------------ input domains
ab   == <<"a", "b">>
Ab   == <<"A", "b">>
AB   == <<"A", "B">>
abc  == <<"a", "b", "c">>
abd  == <<"a", "b", "d">>
bc   == <<"b", "c">>
abcd == <<"a", "b", "c", "d">>
xx   == <<"x">>
aa   == <<"a">>
Empty == << >>
aba  == <<"a", "b", "a">>
abx  == <<"a", "b", "x">>
bca  == <<"b", "c", "a">>

\* Eleven different names, each similar to abcd and none starting with it.
ElevenNames == << abc, abd, <<"a", "c", "d">>, <<"b", "c", "d">>,
                 <<"a", "b", "c", "x">>, <<"a", "b", "x", "d">>, <<"a", "x", "c", "d">>,
                 <<"x", "b", "c", "d">>, <<"x", "a", "b", "c", "d">>,
                 <<"a", "b", "d", "c">>, <<"b", "a", "c", "d">> >>

Names  == {ab, Ab, abc, abd}
Inputs == {Empty, ab, AB, aa, bc, abcd, xx}

\* Candidate lists: every list of up to MaxCands names, and some longer ones
\* (more than three suggestions, more than five matches).
LongLists == {<<ab, Ab, abc>>,
              <<abd, abc, abd>>,
              <<ab, Ab, abd, ab>>,
              <<abc, abd, abc, abd, abc, abd>>,
              <<ab, abc, Ab, abd, ab, abc, abd>>}
NameLists == UNION {[1..n -> Names] : n \in 0..MaxCands} \cup LongLists

\* Resolver configurations (constructor arguments).
Thresholds == {50, DefaultThreshold}
TTLs       == {1, 2}

\* Scopes of role lookups, and the cache keys f"roles_{scope}" made of them.
Scopes == {"S1", "S2"}
\* Mutant: one key for the roles of every scope.
RoleKey_unscoped(scope) == <<"roles_", "S1">>

RoleKey(scope) == <<"roles_", scope>>
Keys == {RoleKey(scope) : scope \in Scopes}

\* Candidate lists stored in the cache.
CacheData == {<< >>, <<ab>>, <<abc, abd>>}

\* ASCII code points of the characters in use (string comparison, lower()).
Ord(c) ==
  CASE c = "A" -> 65 [] c = "B" -> 66
    [] c = "a" -> 97 [] c = "b" -> 98 [] c = "c" -> 99 [] c = "d" -> 100
    [] c = "x" -> 120

LowerChar(c) == CASE c = "A" -> "a" [] c = "B" -> "b" [] OTHER -> c

\* str.lower()
Lower(s) == [i \in 1..Len(s) |-> LowerChar(s[i])]

\* str.startswith(p)
StartsWith(s, p) == Len(p) <= Len(s) /\ SubSeq(s, 1, Len(p)) = p

\* Python's < on str: lexicographic by code point, a proper prefix is smaller.
RECURSIVE StrLess(_, _)
StrLess(s, t) ==
  IF t = << >> THEN FALSE
  ELSE IF s = << >> THEN TRUE
  ELSE IF Ord(Head(s)) # Ord(Head(t)) THEN Ord(Head(s)) < Ord(Head(t))
  ELSE StrLess(Tail(s), Tail(t))

\* ------------------------------------------------------------- similarity
\* Length of the longest common subsequence (rapidfuzz's Indel similarity).
RECURSIVE LCS(_, _)
LCS(s, t) ==
  IF s = << >> \/ t = << >> THEN 0
  ELSE IF Head(s) = Head(t) THEN 1 + LCS(Tail(s), Tail(t))
  ELSE LET x == LCS(Tail(s), t)
           y == LCS(s, Tail(t))
       IN IF x >= y THEN x ELSE y

\* rapidfuzz fuzz.ratio(s, t) / 100 as a rational: 2 * LCS / (|s| + |t|).
FuzzRatio(s, t) ==
  IF Len(s) + Len(t) = 0 THEN <<1, 1>> ELSE <<2 * LCS(s, t), Len(s) + Len(t)>>

\* difflib SequenceMatcher.find_longest_match over whole a and b: the longest
\* common block, the earliest in a among the longest, the earliest in b among
\* those.  k = 0 when a and b share no character.
Blocks(a, b) ==
  {blk \in [i : 1..Len(a), j : 1..Len(b), k : 1..Len(a)] :
     /\ blk.i + blk.k - 1 <= Len(a)
     /\ blk.j + blk.k - 1 <= Len(b)
     /\ SubSeq(a, blk.i, blk.i + blk.k - 1) = SubSeq(b, blk.j, blk.j + blk.k - 1)}

FindLongestMatch(a, b) ==
  IF Blocks(a, b) = {} THEN [i |-> 1, j |-> 1, k |-> 0]
  ELSE CHOOSE blk \in Blocks(a, b) :
         \A o \in Blocks(a, b) :
            \/ blk.k > o.k
            \/ blk.k = o.k /\ blk.i < o.i
            \/ blk.k = o.k /\ blk.i = o.i /\ blk.j <= o.j

\* Sum of the sizes of SequenceMatcher.get_matching_blocks(): the longest
\* block, then the same again to its left and to its right.
RECURSIVE MatchingSize(_, _)
MatchingSize(a, b) ==
  LET blk == FindLongestMatch(a, b)
  IN IF blk.k = 0 THEN 0
     ELSE blk.k
          + MatchingSize(SubSeq(a, 1, blk.i - 1), SubSeq(b, 1, blk.j - 1))
          + MatchingSize(SubSeq(a, blk.i + blk.k, Len(a)),
                         SubSeq(b, blk.j + blk.k, Len(b)))

\* difflib.SequenceMatcher(None, a, b).ratio() as a rational.
SeqRatio(a, b) ==
  IF Len(a) + Len(b) = 0 THEN <<1, 1>> ELSE <<2 * MatchingSize(a, b), Len(a) + Len(b)>>

\* Comparisons of rational scores (denominators are positive).
ScoreGE(x, y) == x[1] * y[2] >= y[1] * x[2]
ScoreGT(x, y) == x[1] * y[2] > y[1] * x[2]
ScoreEQ(x, y) == x[1] * y[2] = y[1] * x[2]
\* score >= pct / 100
AtLeastPct(x, pct) == x[1] * 100 >= pct * x[2]

\* ------------------------------------------------------------ state
VARIABLES
  fuzzy_enabled,      \* InputResolver.fuzzy_enabled
  fuzzy_threshold,    \* InputResolver.fuzzy_threshold, in percent
  cache_ttl_seconds,  \* InputResolver.cache_ttl_seconds
  is_tty,             \* InputResolver.is_tty
  HAS_RAPIDFUZZ,      \* module flag: rapidfuzz importable
  cache,              \* InputResolver._cache: a function from the stored keys to CacheEntry
  now,                \* time.time()
  pc,                 \* "idle", "prompt" (blocked in Prompt.ask), "done"
  call,               \* arguments of the resolve() call in progress or last made
  matches,            \* the list _find_matches returned to resolve()
  result,             \* return value of the last call (None for absent)
  raised,             \* exception that left the last call, "none" otherwise
  out,                \* diagnostics printed by the last call, in order
  engine_calls,       \* invocations of _find_matches in the call
  extractor_calls,    \* invocations of name_extractor in the call
  reads,              \* lines Prompt.ask has read in the call
  last_read,          \* the last thing Prompt.ask met: a line or an interrupt
  last_op,            \* the cache method call made by the last step, if it was one:
                      \* name, key and return value
  aliases,            \* Config.list_aliases(): the alias names in stored order
  upstream,           \* what the PIM API answers to each list request
  displayed           \* the numbered enumeration the last `list` command printed

vars == <<fuzzy_enabled, fuzzy_threshold, cache_ttl_seconds, is_tty, HAS_RAPIDFUZZ,
          cache, now, pc, call, matches, result, raised, out,
          engine_calls, extractor_calls, reads, last_read, last_op,
          aliases, upstream, displayed>>

config == <<fuzzy_enabled, fuzzy_threshold, cache_ttl_seconds, is_tty, HAS_RAPIDFUZZ>>
frame  == <<pc, call, matches, result, raised, out,
            engine_calls, extractor_calls, reads, last_read>>
env    == <<aliases, upstream, displayed>>

\* Optional values: None is the empty sequence, a value v is <<v>>.
None    == << >>
Some(v) == <<v>>

\* A cache method call: its name, key and return value.
NoKey == <<"none", "none">>
Op(op, key, ret) == [op |-> op, key |-> key, ret |-> ret]
NoOp == Op("none", NoKey, None)

\* ------------------------------------------------------------ match engine
EXACT            == "exact"
CASE_INSENSITIVE == "case_insensitive"
PREFIX           == "prefix"
FUZZY            == "fuzzy"

\* The candidate objects of a list of names: position is identity.
Candidates(names) == [i \in 1..Len(names) |-> [id |-> i, name |-> names[i]]]

name_extractor(c) == c.name

Match(item, name, strategy, score) ==
  [item |-> item, name |-> name, strategy |-> strategy, score |-> score]

MatchNames(ms) == [i \in 1..Len(ms) |-> ms[i].name]

\* name_to_candidate = {name: c for c, name in candidate_names}: a later
\* candidate of the same name replaces an earlier one.
name_to_candidate(candidate_names, name) ==
  LET last == CHOOSE i \in 1..Len(candidate_names) :
                /\ candidate_names[i][2] = name
                /\ \A j \in (i + 1)..Len(candidate_names) : candidate_names[j][2] # name
  IN candidate_names[last][1]

\* list.sort(key=lambda m: m.score, reverse=True): stable, descending.
RECURSIVE InsertByScore(_, _)
InsertByScore(sorted, m) ==
  IF sorted = << >> THEN <<m>>
  ELSE IF ScoreGE(Head(sorted).score, m.score)
       THEN <<Head(sorted)>> \o InsertByScore(Tail(sorted), m)
       ELSE <<m>> \o sorted

RECURSIVE SortByScore(_)
SortByScore(ms) ==
  IF ms = << >> THEN << >>
  ELSE InsertByScore(SortByScore(SubSeq(ms, 1, Len(ms) - 1)), ms[Len(ms)])

Take(seq, n) == IF n >= Len(seq) THEN seq ELSE SubSeq(seq, 1, n)

\* rapidfuzz process.extract(query, names, scorer=fuzz.ratio, limit=None):
\* every choice with its score, best first, equal scores in list order
\* (no processor and no score_cutoff are passed: strings are compared as given).
\* A limit keeps the first `limit` of them.
ProcessExtract(query, names) ==
  SortByScore([i \in 1..Len(names) |->
                 [name |-> names[i], score |-> FuzzRatio(query, names[i]), index |-> i]])

\* heapq.nlargest on (score, name) tuples: descending by score, then by name.
PairGE(x, y) ==
  \/ ScoreGT(x.score, y.score)
  \/ ScoreEQ(x.score, y.score) /\ ~StrLess(x.name, y.name)

RECURSIVE InsertPair(_, _)
InsertPair(sorted, p) ==
  IF sorted = << >> THEN <<p>>
  ELSE IF PairGE(Head(sorted), p)
       THEN <<Head(sorted)>> \o InsertPair(Tail(sorted), p)
       ELSE <<p>> \o sorted

RECURSIVE SortPairs(_)
SortPairs(ps) ==
  IF ps = << >> THEN << >>
  ELSE InsertPair(SortPairs(SubSeq(ps, 1, Len(ps) - 1)), ps[Len(ps)])

\* difflib.get_close_matches(word, possibilities, n, cutoff): the names whose
\* ratio (possibility first, word second) reaches the cutoff, the n best.
\* real_quick_ratio and quick_ratio are upper bounds of ratio: they filter
\* nothing that ratio would keep.
GetCloseMatches(word, possibilities, n, cutoff) ==
  LET scored == [i \in 1..Len(possibilities) |->
                   [name |-> possibilities[i], score |-> SeqRatio(possibilities[i], word)]]
      kept   == SelectSeq(scored, LAMBDA p : AtLeastPct(p.score, cutoff))
      best   == Take(SortPairs(kept), n)
  IN [i \in 1..Len(best) |-> best[i].name]

\* candidate_names = [(c, name_extractor(c)) for c in candidates]
CandidateNames(candidates) ==
  [i \in 1..Len(candidates) |-> <<candidates[i], name_extractor(candidates[i])>>]

_fuzzy_match(user_input, candidate_names) ==
  LET names == [i \in 1..Len(candidate_names) |-> candidate_names[i][2]]
      byRapidfuzz ==
        LET results == ProcessExtract(user_input, names)
            kept    == SelectSeq(results, LAMBDA r : AtLeastPct(r.score, fuzzy_threshold))
        IN [i \in 1..Len(kept) |->
              Match(name_to_candidate(candidate_names, kept[i].name),
                    kept[i].name, FUZZY, kept[i].score)]
      byDifflib ==
        LET close_matches == GetCloseMatches(user_input, names, DifflibLimit, fuzzy_threshold)
        IN [i \in 1..Len(close_matches) |->
              Match(name_to_candidate(candidate_names, close_matches[i]),
                    close_matches[i], FUZZY, SeqRatio(user_input, close_matches[i]))]
  IN SortByScore(IF HAS_RAPIDFUZZ THEN byRapidfuzz ELSE byDifflib)

\* [Match(c, name, strategy, score) for c, name in candidate_names if ...]
TierMatches(hits, strategy, score) ==
  [i \in 1..Len(hits) |-> Match(hits[i][1], hits[i][2], strategy, score)]

exact_matches(user_input, candidate_names) ==
  TierMatches(SelectSeq(candidate_names, LAMBDA cn : cn[2] = user_input),
              EXACT, <<1, 1>>)

ci_matches(user_input, candidate_names) ==
  TierMatches(SelectSeq(candidate_names, LAMBDA cn : Lower(cn[2]) = Lower(user_input)),
              CASE_INSENSITIVE, <<95, 100>>)

prefix_matches(user_input, candidate_names) ==
  TierMatches(SelectSeq(candidate_names,
                        LAMBDA cn : StartsWith(Lower(cn[2]), Lower(user_input))),
              PREFIX, <<9, 10>>)

\* Mutant: the case-insensitive matches are returned along with the exact ones.
_find_matches_mixed(user_input, candidates) ==
  LET candidate_names == CandidateNames(candidates)
      exact  == exact_matches(user_input, candidate_names)
      ci     == ci_matches(user_input, candidate_names)
      prefix == prefix_matches(user_input, candidate_names)
  IN IF ci # << >> THEN exact \o SelectSeq(ci, LAMBDA m : m.name # user_input)
     ELSE IF prefix # << >> THEN prefix
     ELSE IF fuzzy_enabled THEN _fuzzy_match(user_input, candidate_names)
     ELSE << >>

\* Mutant: the fuzzy tier runs whether or not fuzzy matching is enabled.
_find_matches_fuzzy_always(user_input, candidates) ==
  LET candidate_names == CandidateNames(candidates)
      exact  == exact_matches(user_input, candidate_names)
      ci     == ci_matches(user_input, candidate_names)
      prefix == prefix_matches(user_input, candidate_names)
  IN IF exact # << >> THEN exact
     ELSE IF ci # << >> THEN ci
     ELSE IF prefix # << >> THEN prefix
     ELSE _fuzzy_match(user_input, candidate_names)

_find_matches(user_input, candidates) ==
  LET candidate_names == CandidateNames(candidates)
      exact  == exact_matches(user_input, candidate_names)
      ci     == ci_matches(user_input, candidate_names)
      prefix == prefix_matches(user_input, candidate_names)
  IN IF exact # << >> THEN exact
     ELSE IF ci # << >> THEN ci
     ELSE IF prefix # << >> THEN prefix
     ELSE IF fuzzy_enabled THEN _fuzzy_match(user_input, candidate_names)
     ELSE << >>

\* Mutant: the suggestions are taken from the result of the primary fuzzy tier.
_get_suggestions_from_fuzzy_tier(user_input, candidates) ==
  IF fuzzy_enabled
    THEN MatchNames(Take(_fuzzy_match(user_input, CandidateNames(candidates)), MaxSuggestions))
    ELSE << >>

\* _get_suggestions(user_input, candidates, name_extractor, max_suggestions=3)
_get_suggestions(user_input, candidates) ==
  LET names == [i \in 1..Len(candidates) |-> name_extractor(candidates[i])]
  IN IF HAS_RAPIDFUZZ
       THEN LET results == Take(ProcessExtract(user_input, names), MaxSuggestions)
            IN [i \in 1..Len(results) |-> results[i].name]
       ELSE GetCloseMatches(user_input, names, MaxSuggestions, SuggestionCutoff)

\* ------------------------------------------------------------ diagnostics
\* One printed diagnostic: its kind, the names it lists in order, and for a
\* match note the strategy and score; `more` is the "...and N more" count.
Msg(kind, names, strategy, score, more) ==
  [kind |-> kind, names |-> names, strategy |-> strategy, score |-> score, more |-> more,
   number |-> 0, upto |-> 0]

PlainMsg(kind, names) == Msg(kind, names, "none", <<0, 1>>, 0)

\* Mutant: the guard clauses return without printing.
_show_error_silent(kind) == << >>

\* _show_error
_show_error(kind) == <<PlainMsg(kind, << >>)>>

\* _show_match_info
_show_match_info(match) ==
  <<Msg("match_info", <<match.name>>, match.strategy, match.score, 0)>>

\* _show_no_match_error: "not found" with the suggestions of _get_suggestions
_show_no_match_error(user_input, candidates) ==
  <<PlainMsg("not_found", _get_suggestions(user_input, candidates))>>

\* Mutant: the overflow line counts every match.
_show_multiple_matches_error_total(ms) ==
  <<Msg("multiple_matches", MatchNames(Take(ms, MaxListed)), "none", <<0, 1>>,
        IF Len(ms) > MaxListed THEN Len(ms) ELSE 0)>>

\* _show_multiple_matches_error: the first five names and the overflow count
_show_multiple_matches_error(ms) ==
  <<Msg("multiple_matches", MatchNames(Take(ms, MaxListed)), "none", <<0, 1>>,
        IF Len(ms) > MaxListed THEN Len(ms) - MaxListed ELSE 0)>>

\* The numbered list _interactive_select prints: entry i is printed as "i.".
PresentedChoices(ms) == <<PlainMsg("choices", MatchNames(ms))>>

\* ------------------------------------------------------------ typed lines
Digit(d) ==
  CASE d = 0 -> "0" [] d = 1 -> "1" [] d = 2 -> "2" [] d = 3 -> "3" [] d = 4 -> "4"
    [] d = 5 -> "5" [] d = 6 -> "6" [] d = 7 -> "7" [] d = 8 -> "8" [] d = 9 -> "9"

DigitChars == {Digit(d) : d \in 0..9}
DigitValue(c) == CHOOSE d \in 0..9 : Digit(d) = c

\* str(i) for i >= 0
RECURSIVE Str(_)
Str(i) == IF i < 10 THEN <<Digit(i)>> ELSE Str(i \div 10) \o <<Digit(i % 10)>>

\* int(s) for a string of decimal digits
RECURSIVE ParseInt(_)
ParseInt(s) ==
  IF Len(s) = 1 THEN DigitValue(s[1])
  ELSE 10 * ParseInt(SubSeq(s, 1, Len(s) - 1)) + DigitValue(s[Len(s)])

\* str.strip()
RECURSIVE Strip(_)
Strip(s) ==
  IF s = << >> THEN s
  ELSE IF Head(s) = " " THEN Strip(Tail(s))
  ELSE IF s[Len(s)] = " " THEN Strip(SubSeq(s, 1, Len(s) - 1))
  ELSE s

\* Lines a user can type at the prompt.
Lines == {<< >>, <<"1">>, <<"2">>, <<"3">>, <<" ", "2">>, <<"0">>, <<"0", "1">>, <<"x">>}

\* choices=[str(i) for i in range(1, len(matches) + 1)]
Choices(ms) == {Str(i) : i \in 1..Len(ms)}

\* ------------------------------------------------------------ resolve()
NoCall ==
  [op |-> "none", user_input |-> << >>, candidates |-> << >>,
   allow_interactive |-> TRUE, scope |-> "none", fetched |-> FALSE,
   cache_key |-> None]

\* Mutant: the input is tested before the candidates.
Guard_input_first(user_input, candidates) ==
  IF user_input = << >> THEN "input_required"
  ELSE IF candidates = << >> THEN "no_candidates"
  ELSE "ok"

\* The guard clauses of resolve(): candidates first, then the input.
Guard(user_input, candidates) ==
  IF candidates = << >> THEN "no_candidates"
  ELSE IF user_input = << >> THEN "input_required"
  ELSE "ok"

\* Mutant: only a fuzzy match is announced.
NeedsNote_fuzzy_only(match) == match.strategy = FUZZY

\* resolve(): a sole match gets a note unless it is exact.
NeedsNote(match) == match.strategy # EXACT

\* Mutant: the caller's allow_interactive is ignored.
CanPrompt_tty_only(allow_interactive) == is_tty

\* _handle_multiple_matches: prompt only on a TTY and when the caller allows it.
CanPrompt(allow_interactive) == is_tty /\ allow_interactive

\* Mutant: matches[int(choice) - 2], Python's negative index wrapping around.
ChosenItem_off_by_one(ms, choice) ==
  ms[IF ParseInt(choice) = 1 THEN Len(ms) ELSE ParseInt(choice) - 1].item

\* _interactive_select: matches[int(choice) - 1].item (Python lists are 0-based).
ChosenItem(ms, choice) == ms[ParseInt(choice)].item

\* Mutant: Prompt.ask without default="1": an empty line is no choice.
PromptAnswer_no_default(line, ms) ==
  IF Strip(line) \in Choices(ms) THEN Some(Strip(line)) ELSE None

\* rich Prompt.ask(choices=[...], default="1") on one line of input: an empty
\* line is the default; otherwise the line is stripped and must be a choice,
\* or it is rejected and the prompt repeats.
PromptAnswer(line, ms) ==
  IF line = << >> THEN Some(<<"1">>)
  ELSE IF Strip(line) \in Choices(ms) THEN Some(Strip(line))
  ELSE None

\* Mutant: except EOFError only.
CaughtInPrompt_eof_only(exc) == exc = "EOFError"

\* except (KeyboardInterrupt, EOFError) in _interactive_select
CaughtInPrompt(exc) == exc \in {"KeyboardInterrupt", "EOFError"}

\* What can interrupt the blocking read of Prompt.ask.
PromptInterrupts == {"KeyboardInterrupt", "EOFError"}

Read(line, exc) == [line |-> line, exc |-> exc]
NoRead == Read(<< >>, "nothing")

\* The body of InputResolver.resolve up to its return or up to the prompt of
\* _interactive_select.  `printed` is what the caller printed before.
ResolveBody(user_input, candidates, allow_interactive, printed) ==
  IF Guard(user_input, candidates) # "ok" THEN
    /\ out' = printed \o _show_error(Guard(user_input, candidates))
    /\ result' = None
    /\ pc' = "done"
    /\ UNCHANGED <<matches, engine_calls, extractor_calls>>
  ELSE
    LET found == _find_matches(user_input, candidates)
    IN /\ matches' = found
       /\ engine_calls' = engine_calls + 1
       /\ IF found = << >> THEN
            /\ out' = printed \o _show_no_match_error(user_input, candidates)
            /\ extractor_calls' = extractor_calls + 2 * Len(candidates)
            /\ result' = None
            /\ pc' = "done"
          ELSE IF Len(found) = 1 THEN
            /\ out' = printed \o (IF NeedsNote(found[1])
                                    THEN _show_match_info(found[1]) ELSE << >>)
            /\ extractor_calls' = extractor_calls + Len(candidates)
            /\ result' = Some(found[1].item)
            /\ pc' = "done"
          ELSE IF CanPrompt(allow_interactive) THEN
            \* _interactive_select prints the list and blocks in Prompt.ask
            /\ out' = printed \o PresentedChoices(found)
            /\ extractor_calls' = extractor_calls + Len(candidates)
            /\ result' = None
            /\ pc' = "prompt"
          ELSE
            /\ out' = printed \o _show_multiple_matches_error(found)
            /\ extractor_calls' = extractor_calls + Len(candidates)
            /\ result' = None
            /\ pc' = "done"

\* Mutant: resolve() stores the candidates it was given under cache_key.
Resolve_caching(user_input, names, allow_interactive, cache_key) ==
  /\ pc = "idle"
  /\ call' = [op |-> "resolve", user_input |-> user_input,
              candidates |-> Candidates(names),
              allow_interactive |-> allow_interactive, scope |-> "none", fetched |-> FALSE,
              cache_key |-> cache_key]
  /\ ResolveBody(user_input, Candidates(names), allow_interactive, << >>)
  /\ last_op' = NoOp
  /\ cache' = IF cache_key = << >> THEN cache
              ELSE [k \in (DOMAIN cache) \cup {cache_key[1]} |->
                      IF k = cache_key[1]
                        THEN [data |-> Candidates(names), timestamp |-> now]
                        ELSE cache[k]]
  /\ UNCHANGED <<config, env, now, raised, reads, last_read>>

\* A direct call resolver.resolve(user_input, candidates, name_extractor,
\* context, allow_interactive, cache_key): the body never uses cache_key.
Resolve(user_input, names, allow_interactive, cache_key) ==
  /\ pc = "idle"
  /\ call' = [op |-> "resolve", user_input |-> user_input,
              candidates |-> Candidates(names),
              allow_interactive |-> allow_interactive, scope |-> "none", fetched |-> FALSE,
              cache_key |-> cache_key]
  /\ ResolveBody(user_input, Candidates(names), allow_interactive, << >>)
  /\ last_op' = NoOp
  /\ UNCHANGED <<config, env, cache, now, raised, reads, last_read>>

\* The user types a line at the prompt of _interactive_select.
PromptRead(line) ==
  /\ pc = "prompt"
  /\ reads < MaxReads
  /\ reads' = reads + 1
  /\ last_read' = Read(line, "none")
  /\ IF PromptAnswer(line, matches) # None THEN
       /\ result' = Some(ChosenItem(matches, PromptAnswer(line, matches)[1]))
       /\ pc' = "done"
       /\ out' = out
     ELSE
       /\ result' = result
       /\ pc' = "prompt"
       /\ out' = out \o <<PlainMsg("invalid_choice", << >>)>>
  /\ UNCHANGED <<config, env, cache, now, call, matches, raised,
                 engine_calls, extractor_calls>>
  /\ last_op' = NoOp

\* The read of Prompt.ask is interrupted (Ctrl-C) or meets end of input.
PromptInterrupt(exc) ==
  /\ pc = "prompt"
  /\ last_read' = Read(<< >>, exc)
  /\ reads' = reads
  /\ result' = None
  /\ pc' = "done"
  /\ IF CaughtInPrompt(exc) THEN
       /\ raised' = "none"
       /\ out' = out \o <<PlainMsg("cancelled", << >>)>>
     ELSE
       /\ raised' = exc
       /\ out' = out
  /\ UNCHANGED <<config, env, cache, now, call, matches,
                 engine_calls, extractor_calls>>
  /\ last_op' = NoOp

\* Helpers that post-process what resolve() returned: the call is at stage
\* "resolve" until the helper's own return statement has run.
StagedOps == {"resolve_scope", "resolve_scope_input", "list"}
Pending == call.op \in StagedOps /\ call.stage = "resolve"

\* The caller takes the result; the call's frame is gone.
Return ==
  /\ pc = "done"
  /\ ~Pending
  /\ pc' = "idle"
  /\ call' = NoCall
  /\ matches' = << >>
  /\ result' = None
  /\ raised' = "none"
  /\ out' = << >>
  /\ engine_calls' = 0
  /\ extractor_calls' = 0
  /\ reads' = 0
  /\ last_read' = NoRead
  /\ last_op' = NoOp
  /\ UNCHANGED <<config, env, cache, now>>

\* ------------------------------------------------------------ cache
CacheEntry(data, timestamp) == [data |-> data, timestamp |-> timestamp]

EmptyCache == [k \in {} |-> CacheEntry(<< >>, 0)]

\* Mutant: an entry expires as soon as its age reaches the TTL.
Expired_at_ttl(entry) == now - entry.timestamp >= cache_ttl_seconds

\* get_cached: time.time() - entry.timestamp > self.cache_ttl_seconds
Expired(entry) == now - entry.timestamp > cache_ttl_seconds

\* del self._cache[key]
Without(c, key) == [k \in (DOMAIN c) \ {key} |-> c[k]]

\* self._cache[key] = entry
With(c, key, entry) == [k \in (DOMAIN c) \cup {key} |-> IF k = key THEN entry ELSE c[k]]

\* Mutant: get_cached returns None for an expired entry without deleting it.
CacheAfterGet_keeps_stale(c, key) == c

\* The cache after get_cached(key) and what it returns.
CacheAfterGet(c, key) ==
  IF key \in DOMAIN c /\ Expired(c[key]) THEN Without(c, key) ELSE c

GetReturns(c, key) ==
  IF key \notin DOMAIN c THEN None
  ELSE IF Expired(c[key]) THEN None
  ELSE Some(c[key].data)

\* Mutant: a read purges every expired entry, not only the one asked for.
GetCached_purging(key) ==
  /\ pc = "idle"
  /\ last_op' = Op("get", key, GetReturns(cache, key))
  /\ cache' = [k \in {j \in DOMAIN cache : ~Expired(cache[j])} |-> cache[k]]
  /\ UNCHANGED <<config, env, now, frame>>

\* InputResolver.get_cached(key)
GetCached(key) ==
  /\ pc = "idle"
  /\ last_op' = Op("get", key, GetReturns(cache, key))
  /\ cache' = CacheAfterGet(cache, key)
  /\ UNCHANGED <<config, env, now, frame>>

\* InputResolver.set_cache(key, data)
SetCache(key, data) ==
  /\ pc = "idle"
  /\ cache' = With(cache, key, CacheEntry(data, now))
  /\ last_op' = Op("set", key, None)
  /\ UNCHANGED <<config, env, now, frame>>

\* Mutant: clear_cache drops the expired entries only.
ClearCache_expired_only ==
  /\ pc = "idle"
  /\ cache' = [k \in {j \in DOMAIN cache : ~Expired(cache[j])} |-> cache[k]]
  /\ last_op' = Op("clear", NoKey, None)
  /\ UNCHANGED <<config, env, now, frame>>

\* InputResolver.clear_cache()
ClearCache ==
  /\ pc = "idle"
  /\ cache' = EmptyCache
  /\ last_op' = Op("clear", NoKey, None)
  /\ UNCHANGED <<config, env, now, frame>>

\* A second passes on the clock time.time() reads.
Tick ==
  /\ pc = "idle"
  /\ now < MaxTime
  /\ now' = now + 1
  /\ last_op' = NoOp
  /\ UNCHANGED <<config, env, cache, frame>>

\* ------------------------------------------------------------ resolve_role
\* str.isdigit() on the characters in use
IsDigits(s) == s # << >> /\ \A i \in DOMAIN s : s[i] \in DigitChars

\* int(s): surrounding blanks are stripped, a leading '-' negates, a leading
\* '+' is allowed; anything else than digits raises ValueError (None here).
PyInt(s) ==
  LET t == Strip(s)
  IN IF t = << >> THEN None
     ELSE IF t[1] = "-"
       THEN (IF IsDigits(Tail(t)) THEN Some(0 - ParseInt(Tail(t))) ELSE None)
     ELSE IF t[1] = "+"
       THEN (IF IsDigits(Tail(t)) THEN Some(ParseInt(Tail(t))) ELSE None)
     ELSE IF IsDigits(t) THEN Some(ParseInt(t))
     ELSE None

\* Mutant: only a token with '#' is a number.
RoleNumber_hash_only(role_input) ==
  IF role_input # << >> /\ role_input[1] = "#" THEN PyInt(Tail(role_input))
  ELSE None

\* resolve_role: role_number of "#..." or of an all-digit input, else None.
RoleNumber(role_input) ==
  IF role_input # << >> /\ role_input[1] = "#" THEN PyInt(Tail(role_input))
  ELSE IF IsDigits(role_input) THEN PyInt(role_input)
  ELSE None

\* "Invalid role number N (must be 1-L)"
InvalidNumberMsg(n, len) ==
  <<[PlainMsg("invalid_number", << >>) EXCEPT !.number = n, !.upto = len]>>

\* What fetch_roles_fn() does when called: it returns a list or it raises.
Returns(names) == [raises |-> "none", roles |-> Candidates(names)]
Raises(exc)    == [raises |-> exc, roles |-> << >>]
FetchErrors    == {"NetworkError", "AuthenticationError", "PermissionError"}
FetchOutcomes  == {Returns(names) : names \in CacheData} \cup {Raises(exc) : exc \in FetchErrors}

\* Role inputs: names and positional tokens.
RoleInputs == {ab, aa, xx, <<"1">>, <<"#", "2">>, <<"0">>, <<"3">>, <<"#">>, <<"#", "-", "1">>}

\* Mutant: `if not roles:` - a cached empty list counts as a miss.
CacheMiss_falsy(cached) == cached = None \/ cached = Some(<< >>)

\* `if roles is None:` after get_cached
CacheMiss(cached) == cached = None

\* Mutant: `1 <= role_number < len(roles)`.
ValidRoleNumber_exclusive(n, len) == 1 <= n /\ n < len

\* `1 <= role_number <= len(roles)`
ValidRoleNumber(n, len) == 1 <= n /\ n <= len

\* resolve_role(resolver, role_input, scope, fetch_roles_fn, role_name_extractor)
\* up to its return or up to the prompt of _interactive_select.
ResolveRole(role_input, scope, fetch) ==
  LET cache_key == RoleKey(scope)
      cached    == GetReturns(cache, cache_key)
      evicted   == CacheAfterGet(cache, cache_key)
      roles     == IF CacheMiss(cached) THEN fetch.roles ELSE cached[1]
      number    == RoleNumber(role_input)
  IN
  /\ pc = "idle"
  /\ last_op' = NoOp
  /\ UNCHANGED <<config, env, now, reads, last_read>>
  /\ IF CacheMiss(cached) /\ fetch.raises # "none" THEN
       \* fetch_roles_fn() raised: nothing catches it
       /\ call' = [op |-> "resolve_role", user_input |-> role_input, candidates |-> << >>,
                   allow_interactive |-> TRUE, scope |-> scope, fetched |-> TRUE,
                   cache_key |-> Some(cache_key), fetch_raises |-> fetch.raises]
       /\ cache' = evicted
       /\ raised' = fetch.raises
       /\ result' = None
       /\ pc' = "done"
       /\ UNCHANGED <<matches, out, engine_calls, extractor_calls>>
     ELSE
       /\ call' = [op |-> "resolve_role", user_input |-> role_input, candidates |-> roles,
                   allow_interactive |-> TRUE, scope |-> scope, fetched |-> CacheMiss(cached),
                   cache_key |-> Some(cache_key), fetch_raises |-> "none"]
       /\ cache' = IF CacheMiss(cached)
                    THEN With(evicted, cache_key, CacheEntry(roles, now))
                    ELSE cache
       /\ raised' = "none"
       /\ IF number # None THEN
            /\ IF ValidRoleNumber(number[1], Len(roles)) THEN
                 /\ result' = Some(roles[number[1]])
                 /\ out' = << >>
               ELSE
                 /\ result' = None
                 /\ out' = InvalidNumberMsg(number[1], Len(roles))
            /\ pc' = "done"
            /\ UNCHANGED <<matches, engine_calls, extractor_calls>>
          ELSE ResolveBody(role_input, roles, TRUE, << >>)

\* ------------------------------------------------------------ resolve_scope
SubscriptionsPrefix ==
  <<"/", "s", "u", "b", "s", "c", "r", "i", "p", "t", "i", "o", "n", "s", "/">>
ProvidersPrefix == <<"/", "p", "r", "o", "v", "i", "d", "e", "r", "s", "/">>
ResourceGroupsPart ==
  <<"/", "r", "e", "s", "o", "u", "r", "c", "e", "G", "r", "o", "u", "p", "s", "/">>
Directory == <<"d", "i", "r", "e", "c", "t", "o", "r", "y">>
Slash == <<"/">>

\* `c in s` for a character c
HasChar(s, c) == \E i \in DOMAIN s : s[i] = c

\* Subscription ids, and the characters an f-string renders them with.
SubscriptionIds == {"sub1"}
IdChars(id) == CASE id = "sub1" -> <<"s", "u", "b", "1">>

\* A string of 36 characters with a dash, and one without
GuidLike  == [i \in 1..36 |-> IF i = 9 THEN "-" ELSE "a"]
NotGuid36 == [i \in 1..36 |-> "a"]

\* f"scopes_{subscription_id or 'all'}"
ScopeKey(subscription_id) ==
  <<"scopes_", IF subscription_id = None THEN "all" ELSE subscription_id[1]>>

\* fetch_scopes_fn: not passed (None), or a function with its outcome.
NoFetch == [raises |-> "absent", roles |-> << >>]

ScopeInputs == {SubscriptionsPrefix \o xx, ProvidersPrefix \o xx, Slash, Directory,
                ab, xx, <<"a", "/", "b">>, GuidLike, NotGuid36}

\* The branches of resolve_scope that return before any lookup; None when the
\* function goes on to the fetch branch or falls off its end.
DirectScope(scope_input, subscription_id, fetch) ==
  IF StartsWith(scope_input, SubscriptionsPrefix) \/ StartsWith(scope_input, ProvidersPrefix)
    THEN Some(scope_input)
  ELSE IF Lower(scope_input) \in {Directory, Slash} THEN Some(Slash)
  ELSE IF subscription_id # None /\ fetch = NoFetch /\ ~HasChar(scope_input, "/")
    THEN IF Len(scope_input) = 36 /\ HasChar(scope_input, "-")
           THEN Some(SubscriptionsPrefix \o scope_input)
           ELSE Some(SubscriptionsPrefix \o IdChars(subscription_id[1])
                       \o ResourceGroupsPart \o scope_input)
  ELSE None

\* resolve_scope(resolver, scope_input, subscription_id, fetch_scopes_fn) up to
\* the return of resolver.resolve or up to the prompt of _interactive_select.
ResolveScope(scope_input, subscription_id, fetch) ==
  LET direct    == DirectScope(scope_input, subscription_id, fetch)
      cache_key == ScopeKey(subscription_id)
      cached    == GetReturns(cache, cache_key)
      evicted   == CacheAfterGet(cache, cache_key)
      scopes    == IF CacheMiss(cached) THEN fetch.roles ELSE cached[1]
      frame0    == [op |-> "resolve_scope", user_input |-> scope_input, candidates |-> << >>,
                    allow_interactive |-> TRUE, scope |-> "none", fetched |-> FALSE,
                    cache_key |-> None, stage |-> "end", fetch_raises |-> "none"]
  IN
  /\ pc = "idle"
  /\ last_op' = NoOp
  /\ UNCHANGED <<config, env, now, reads, last_read>>
  /\ IF direct # None \/ fetch = NoFetch THEN
       \* a path taken as given or built from the input, or nothing to look up
       /\ call' = frame0
       /\ result' = direct
       /\ raised' = "none"
       /\ pc' = "done"
       /\ UNCHANGED <<cache, matches, out, engine_calls, extractor_calls>>
     ELSE IF CacheMiss(cached) /\ fetch.raises # "none" THEN
       \* fetch_scopes_fn() raised: nothing catches it
       /\ call' = [frame0 EXCEPT !.fetched = TRUE, !.cache_key = Some(cache_key),
                                 !.fetch_raises = fetch.raises]
       /\ cache' = evicted
       /\ raised' = fetch.raises
       /\ result' = None
       /\ pc' = "done"
       /\ UNCHANGED <<matches, out, engine_calls, extractor_calls>>
     ELSE
       /\ call' = [frame0 EXCEPT !.candidates = scopes, !.fetched = CacheMiss(cached),
                                 !.cache_key = Some(cache_key), !.stage = "resolve"]
       /\ cache' = IF CacheMiss(cached)
                    THEN With(evicted, cache_key, CacheEntry(scopes, now))
                    ELSE cache
       /\ raised' = "none"
       /\ ResolveBody(scope_input, scopes, TRUE, << >>)

\* resolve_scope after resolver.resolve returned:
\* `if resolved: return extract_scope_name(resolved)`, else None.
ResolveScopeReturn ==
  /\ pc = "done"
  /\ call.op = "resolve_scope"
  /\ call.stage = "resolve"
  /\ call' = [call EXCEPT !.stage = "end"]
  /\ result' = IF result # None THEN Some(name_extractor(result[1])) ELSE None
  /\ last_op' = NoOp
  /\ UNCHANGED <<config, env, cache, now, pc, matches, raised, out,
                 engine_calls, extractor_calls, reads, last_read>>

\* ------------------------------------------------------------ CLI: roles
\* NormalizedRole, with the fields numeric addressing looks at.
NormalizedRole(name, id, scope, is_alias, alias_name) ==
  [name |-> name, id |-> id, scope |-> scope, is_alias |-> is_alias, alias_name |-> alias_name]

\* alias_to_normalized_role for an alias whose configuration names no role:
\* the role name is the alias name, the id is "".
alias_to_normalized_role(alias_name) ==
  NormalizedRole(alias_name, << >>, << >>, TRUE, Some(alias_name))

\* One entry of an ARM response, and normalize_arm_role of it.
ArmRole(displayName, roleDefinitionId, scope) ==
  [displayName |-> displayName, roleDefinitionId |-> roleDefinitionId, scope |-> scope]

normalize_arm_role(arm_response) ==
  NormalizedRole(arm_response.displayName, arm_response.roleDefinitionId,
                 arm_response.scope, FALSE, None)

\* normalize_roles(roles_data, source=RoleSource.ARM): in response order
normalize_roles(responses) ==
  [i \in 1..Len(responses) |-> normalize_arm_role(responses[i])]

\* alias_roles: one role per configured alias, in stored order
AliasRoles(als) == [i \in 1..Len(als) |-> alias_to_normalized_role(als[i])]

\* auth.get_subscription_id()
CurrentSubscription == "sub1"

\* f"subscriptions/{subscription_id}": the scope used when none is given
DefaultScopePath == Tail(SubscriptionsPrefix) \o IdChars(CurrentSubscription)

\* Scopes of the current subscription.
SubscriptionPath == SubscriptionsPrefix \o IdChars(CurrentSubscription)
ResourceGroupPath(name) == SubscriptionPath \o ResourceGroupsPart \o name

\* The list requests the client makes: the directory roles, or the resource
\* roles of a scope string, put into the URL as it is.
DirectoryRequest == <<"directory">>
Requests == {DirectoryRequest, DefaultScopePath, SubscriptionPath,
             ResourceGroupPath(ab), ResourceGroupPath(abc), ResourceGroupPath(abd), ab}

Owner       == ArmRole(abc, <<"r", "1">>, ResourceGroupPath(abc))
Reader      == ArmRole(abd, <<"r", "2">>, ResourceGroupPath(abc))
Contributor == ArmRole(ab, <<"r", "3">>, ResourceGroupPath(abd))
\* A role whose name reads like a number, with no scope in its properties.
Unscoped    == ArmRole(<<"1">>, <<"r", "4">>, << >>)

\* Answers of the API: to every request a list of roles or a failure.  A scope
\* is answered alike with and without its leading slash.
Answer(roles) == [raises |-> "none", roles |-> roles]

\* Roles at one resource group; the request for the bare name fails.
Upstream1 ==
  [q \in Requests |->
     CASE q = DirectoryRequest       -> Answer(<<Owner, Reader>>)
       [] q = DefaultScopePath       -> Answer(<<Owner, Unscoped, Reader>>)
       [] q = SubscriptionPath       -> Answer(<<Owner, Unscoped, Reader>>)
       [] q = ResourceGroupPath(ab)  -> Answer(<<Contributor, Owner>>)
       [] q = ResourceGroupPath(abc) -> Answer(<<Owner, Reader>>)
       [] q = ResourceGroupPath(abd) -> Answer(<<Contributor>>)
       [] q = ab                     -> Raises("NetworkError")]

\* The subscription's roles cannot be listed; the bare name is answered.
Upstream2 ==
  [q \in Requests |->
     CASE q = DirectoryRequest       -> Answer(<< >>)
       [] q = DefaultScopePath       -> Raises("PermissionError")
       [] q = SubscriptionPath       -> Raises("PermissionError")
       [] q = ResourceGroupPath(ab)  -> Answer(<<Reader, Contributor>>)
       [] q = ResourceGroupPath(abc) -> Raises("AuthenticationError")
       [] q = ResourceGroupPath(abd) -> Answer(<< >>)
       [] q = ab                     -> Answer(<<Contributor>>)]

\* Roles at two resource groups with similar names.
Upstream3 ==
  [q \in Requests |->
     CASE q = DirectoryRequest       -> Answer(<<Reader>>)
       [] q = DefaultScopePath       -> Answer(<<Owner, Contributor>>)
       [] q = SubscriptionPath       -> Answer(<<Owner, Contributor>>)
       [] q = ResourceGroupPath(ab)  -> Answer(<<Owner>>)
       [] q = ResourceGroupPath(abc) -> Answer(<<Reader, Owner>>)
       [] q = ResourceGroupPath(abd) -> Answer(<<Contributor, Reader>>)
       [] q = ab                     -> Raises("NetworkError")]

Upstreams == {Upstream1, Upstream2, Upstream3}

\* Alias configurations.
AliasConfigs == {<< >>, <<xx>>, <<xx, bc>>}

\* `if limit and len(all_results) >= limit: all_results = all_results[:limit]`
Limited(values, limit) ==
  IF limit # None /\ limit[1] # 0 /\ Len(values) >= limit[1]
    THEN SubSeq(values, 1, limit[1]) ELSE values

\* PIMClient.list_role_assignments / list_resource_role_assignments: the answer
\* to the request (one page), cut to the limit.
ClientList(request, limit) ==
  IF upstream[request].raises # "none" THEN upstream[request]
  ELSE Answer(Limited(upstream[request].roles, limit))

\* ------------------------------------------------------------ CLI: scopes
\* `sub in s` for strings
HasSub(s, sub) ==
  \E i \in 1..(Len(s) - Len(sub) + 1) : SubSeq(s, i, i + Len(sub) - 1) = sub

\* "subscriptions/"
SubscriptionsWord == Tail(SubscriptionsPrefix)

\* resolve_scope_input: the inputs taken as paths, with a leading slash ensured.
ScopeInputDirect(scope_input) ==
  IF StartsWith(scope_input, SubscriptionsPrefix) \/ StartsWith(scope_input, ProvidersPrefix)
    THEN Some(scope_input)
  ELSE IF StartsWith(scope_input, SubscriptionsWord) THEN Some(Slash \o scope_input)
  ELSE IF HasSub(scope_input, SubscriptionsWord)
    THEN Some(IF StartsWith(scope_input, Slash) THEN scope_input ELSE Slash \o scope_input)
  ELSE None

\* The default: a resource group of the current subscription.
DefaultScope(scope_input) == ResourceGroupPath(scope_input)

\* scope_id.split("/")[-1]
RECURSIVE LastSegment(_)
LastSegment(s) ==
  IF ~HasChar(s, "/") THEN s
  ELSE LastSegment(Tail(s))

\* The loop of fetch_scopes over roles_data: the scope ids in order of first
\* appearance, a role without a scope id is skipped.
RECURSIVE DiscoveredScopes(_, _)
DiscoveredScopes(roles_data, seen_scopes) ==
  IF roles_data = << >> THEN << >>
  ELSE LET scope_id == Head(roles_data).scope
       IN IF scope_id = << >> \/ scope_id \in seen_scopes
            THEN DiscoveredScopes(Tail(roles_data), seen_scopes)
            ELSE <<[id |-> scope_id, name |-> LastSegment(scope_id)]>>
                 \o DiscoveredScopes(Tail(roles_data), seen_scopes \cup {scope_id})

\* fetch_scopes(): the current subscription, then the scopes of the roles
\* listed at it; a failure of that listing is swallowed.
fetch_scopes(roles_answer) ==
  <<[id |-> SubscriptionPath, name |-> IdChars(CurrentSubscription)]>>
  \o (IF roles_answer.raises # "none" THEN << >>
      ELSE DiscoveredScopes(roles_answer.roles, {}))

\* Mutant: the resolved scope is dropped, the default is always returned.
ScopeInputResult_default_only(resolved, scope_input) == DefaultScope(scope_input)

\* resolve_scope_input after the resolver branch: the id of the resolved scope
\* if there is one, else the default.
ScopeInputResult(resolved, scope_input) ==
  IF resolved # None /\ resolved[1].id # << >> THEN resolved[1].id
  ELSE DefaultScope(scope_input)

\* get_resolver(config): an InputResolver is built from the settings, or the
\* call raises.
ResolverOutcomes == {"built", "TypeError"}

\* The answers of the listing inside fetch_scopes.
Discoveries == {Answer(<<Owner, Unscoped, Reader>>), Answer(<<Owner, Contributor>>),
                Raises("NetworkError")}

\* resolve_scope_input(scope_input, auth, client, config) up to the return of
\* resolver.resolve or up to the prompt of _interactive_select.  `discovery` is
\* what client.list_resource_role_assignments does inside fetch_scopes.  The
\* resolver is a new one: no cache of another resolver is touched.
ResolveScopeInput(scope_input, has_client_config, get_resolver, discovery) ==
  LET direct == ScopeInputDirect(scope_input)
      scopes == fetch_scopes(discovery)
      frame0 == [op |-> "resolve_scope_input", user_input |-> scope_input,
                 candidates |-> << >>, allow_interactive |-> TRUE, scope |-> "none",
                 fetched |-> FALSE, cache_key |-> None, stage |-> "end",
                 fetch_raises |-> "none"]
  IN
  /\ pc = "idle"
  /\ last_op' = NoOp
  /\ raised' = "none"
  /\ UNCHANGED <<config, env, cache, now, reads, last_read>>
  /\ IF direct # None THEN
       /\ call' = frame0
       /\ result' = direct
       /\ pc' = "done"
       /\ UNCHANGED <<matches, out, engine_calls, extractor_calls>>
     ELSE IF ~has_client_config \/ get_resolver # "built" THEN
       \* no lookup, or `except Exception: pass` after get_resolver raised
       /\ call' = frame0
       /\ result' = Some(DefaultScope(scope_input))
       /\ pc' = "done"
       /\ UNCHANGED <<matches, out, engine_calls, extractor_calls>>
     ELSE
       /\ call' = [frame0 EXCEPT !.candidates = scopes, !.fetched = TRUE,
                                 !.stage = "resolve", !.fetch_raises = discovery.raises]
       /\ ResolveBody(scope_input, scopes, TRUE, << >>)

\* resolve_scope_input after resolver.resolve returned or raised: an Exception
\* is swallowed; a KeyboardInterrupt is not an Exception.
ResolveScopeInputReturn ==
  /\ pc = "done"
  /\ call.op = "resolve_scope_input"
  /\ call.stage = "resolve"
  /\ call' = [call EXCEPT !.stage = "end"]
  /\ IF raised = "KeyboardInterrupt"
       THEN result' = None /\ raised' = raised
       ELSE result' = Some(ScopeInputResult(result, call.user_input)) /\ raised' = "none"
  /\ last_op' = NoOp
  /\ UNCHANGED <<config, env, cache, now, pc, matches, out,
                 engine_calls, extractor_calls, reads, last_read>>

\* ------------------------------------------------------------ CLI: commands
\* Nothing has been listed yet.
NoDisplay == [shown |-> FALSE]

\* The rows of the two tables of list_roles: the aliases numbered from 1, the
\* Azure roles numbered from len(alias_roles) + 1.
AliasRows(alias_roles) ==
  [i \in 1..Len(alias_roles) |-> [number |-> i, role |-> alias_roles[i]]]

AzureRows(alias_roles, azure_roles) ==
  [i \in 1..Len(azure_roles) |->
     [number |-> Len(alias_roles) + i, role |-> azure_roles[i]]]

\* What list_roles has put on the screen, with the arguments and the data it
\* was made from.
Display(resource, scope, azure_roles) ==
  [shown |-> TRUE, resource |-> resource, scope |-> scope,
   aliases |-> aliases, upstream |-> upstream,
   entries |-> AliasRows(AliasRoles(aliases))
               \o AzureRows(AliasRoles(aliases), azure_roles)]

\* The values of --scope and --limit.
ScopeArgs == {None, Some(SubscriptionPath), Some(ab)}
Limits == {None, Some(1)}

\* The frame of a command.
Command(op, role_input, resource, scope) ==
  [op |-> op, user_input |-> role_input, candidates |-> << >>,
   allow_interactive |-> TRUE, scope |-> << >>, fetched |-> FALSE, cache_key |-> None,
   stage |-> "end", fetch_raises |-> "none", resource |-> resource, scope_arg |-> scope,
   limit |-> None, numeric |-> FALSE]

\* list_roles from the fetch on: the roles at the scope are requested; a
\* failure ends the command with its error, else the tables are printed.
ListFetch(cmd, scope) ==
  LET request == IF cmd.resource THEN scope ELSE DirectoryRequest
      answer  == ClientList(request, cmd.limit)
  IN /\ call' = [cmd EXCEPT !.stage = "end", !.scope = request, !.fetched = TRUE,
                              !.fetch_raises = answer.raises]
     /\ raised' = answer.raises
     /\ result' = None
     /\ displayed' = IF answer.raises # "none" THEN displayed
                     ELSE Display(cmd.resource, cmd.scope_arg,
                                  normalize_roles(answer.roles))
     /\ UNCHANGED <<aliases, upstream>>

\* list_roles(resource, scope, limit) up to its end, or up to the return of
\* the resolver.resolve call of resolve_scope_input, or up to its prompt.
ListRoles(resource, scope, limit, get_resolver) ==
  LET cmd  == [Command("list", IF scope = None THEN << >> ELSE scope[1], resource, scope)
                   EXCEPT !.limit = limit]
      direct == IF scope = None \/ scope[1] = << >> THEN Some(DefaultScopePath)
                ELSE IF ScopeInputDirect(scope[1]) # None THEN ScopeInputDirect(scope[1])
                ELSE IF get_resolver # "built" THEN Some(DefaultScope(scope[1]))
                ELSE None
      scopes == fetch_scopes(ClientList(DefaultScopePath, None))
  IN
  /\ pc = "idle"
  /\ last_op' = NoOp
  /\ UNCHANGED <<config, cache, now, reads, last_read>>
  /\ IF ~resource \/ direct # None THEN
       /\ ListFetch(cmd, IF resource THEN direct[1] ELSE << >>)
       /\ pc' = "done"
       /\ UNCHANGED <<matches, out, engine_calls, extractor_calls>>
     ELSE
       /\ call' = [cmd EXCEPT !.stage = "resolve", !.candidates = scopes]
       /\ raised' = "none"
       /\ UNCHANGED <<aliases, upstream, displayed>>
       /\ ResolveBody(scope[1], scopes, TRUE, << >>)

\* list_roles after resolve_scope_input's resolver.resolve returned.
ListRolesContinue ==
  /\ pc = "done"
  /\ call.op = "list"
  /\ call.stage = "resolve"
  /\ ListFetch(call, ScopeInputResult(result, call.user_input))
  /\ last_op' = NoOp
  /\ UNCHANGED <<config, cache, now, pc, matches, out,
                 engine_calls, extractor_calls, reads, last_read>>

\* s.lstrip(c)
RECURSIVE Lstrip(_, _)
Lstrip(s, c) == IF s # << >> /\ s[1] = c THEN Lstrip(Tail(s), c) ELSE s

\* Mutant: only all-digit tokens enter the numeric block.
ActivateNumeric_digits_only(role_input) == IsDigits(role_input)

\* activate_role: `role_input and (role_input.startswith("#") or role_input.isdigit())`
ActivateNumeric(role_input) ==
  role_input # << >> /\ (role_input[1] = "#" \/ IsDigits(role_input))

\* activate_role: int(role_input.lstrip("#")), None for ValueError
ActivateRoleNum(role_input) == PyInt(Lstrip(role_input, "#"))

\* "Invalid role number format: '...'" and "Invalid role number. Please run
\* 'az-pim list' to see available roles (1-L)."
InvalidFormatMsg == <<PlainMsg("invalid_number_format", << >>)>>
InvalidListNumberMsg(len) == <<[PlainMsg("invalid_list_number", << >>) EXCEPT !.upto = len]>>

\* Mutant: the number indexes the Azure roles alone.
NumberedRoles_remote_only(alias_roles, azure_roles) == azure_roles

\* `all_roles = alias_roles + azure_roles`
NumberedRoles(alias_roles, azure_roles) == alias_roles \o azure_roles

\* activate_role(role, resource, scope) through its numeric block: a token that
\* is a number reference picks the role to activate from the aliases and the
\* roles listed at the scope as given; any other token goes on to the alias
\* lookup and name resolution.
ActivateRole(role_input, resource, scope) ==
  LET cmd     == Command("activate", role_input, resource, scope)
      role_num  == ActivateRoleNum(role_input)
      request   == IF ~resource THEN DirectoryRequest
                   ELSE IF scope = None \/ scope[1] = << >> THEN DefaultScopePath
                   ELSE scope[1]
      answer    == ClientList(request, None)
      all_roles == NumberedRoles(AliasRoles(aliases), normalize_roles(answer.roles))
  IN
  /\ pc = "idle"
  /\ pc' = "done"
  /\ last_op' = NoOp
  /\ UNCHANGED <<config, env, cache, now, reads, last_read,
                 matches, engine_calls, extractor_calls>>
  /\ IF ~ActivateNumeric(role_input) THEN
       /\ call' = cmd
       /\ result' = None
       /\ raised' = "none"
       /\ out' = << >>
     ELSE IF role_num = None THEN
       /\ call' = [cmd EXCEPT !.numeric = TRUE]
       /\ result' = None
       /\ raised' = "Exit"
       /\ out' = InvalidFormatMsg
     ELSE IF answer.raises # "none" THEN
       /\ call' = [cmd EXCEPT !.numeric = TRUE, !.scope = request, !.fetched = TRUE,
                                !.fetch_raises = answer.raises]
       /\ result' = None
       /\ raised' = answer.raises
       /\ out' = << >>
     ELSE
       /\ call' = [cmd EXCEPT !.numeric = TRUE, !.scope = request, !.fetched = TRUE,
                                !.candidates = all_roles]
       /\ IF role_num[1] < 1 \/ role_num[1] > Len(all_roles) THEN
            /\ result' = None
            /\ raised' = "Exit"
            /\ out' = InvalidListNumberMsg(Len(all_roles))
          ELSE
            /\ result' = Some(all_roles[role_num[1]])
            /\ raised' = "none"
            /\ out' = << >>

\* The fetch_roles closure of activate_role: the roles listed at the scope.
fetch_roles(scope) ==
  LET answer == ClientList(scope, None)
  IN IF answer.raises # "none" THEN answer ELSE Answer(normalize_roles(answer.roles))

\* activate_role's call of resolve_role on a new resolver.
ActivateResolveRole(role_input, scope) ==
  ResolveRole(role_input, scope, fetch_roles(scope))

\* The configuration file and the role data change between commands.
AliasesChange(als) ==
  /\ pc = "idle"
  /\ als # aliases
  /\ aliases' = als
  /\ last_op' = NoOp
  /\ UNCHANGED <<config, upstream, displayed, cache, now, pc, call, matches, result,
                 raised, out, engine_calls, extractor_calls, reads, last_read>>

UpstreamChange(up) ==
  /\ pc = "idle"
  /\ up # upstream
  /\ upstream' = up
  /\ last_op' = NoOp
  /\ UNCHANGED <<config, aliases, displayed, cache, now, pc, call, matches, result,
                 raised, out, engine_calls, extractor_calls, reads, last_read>>

\* The command ends and its process with it: the resolver and its cache are gone.
CommandExit ==
  /\ pc = "done"
  /\ ~Pending
  /\ pc' = "idle"
  /\ call' = NoCall
  /\ cache' = EmptyCache
  /\ matches' = << >>
  /\ result' = None
  /\ raised' = "none"
  /\ out' = << >>
  /\ engine_calls' = 0
  /\ extractor_calls' = 0
  /\ reads' = 0
  /\ last_read' = NoRead
  /\ last_op' = NoOp
  /\ UNCHANGED <<config, env, now>>

\* ------------------------------------------------------------ get_resolver
\* The `defaults` section of the configuration: each setting is set or not.
DefaultsSections ==
  [fuzzy_matching : {None, <<FALSE>>, <<TRUE>>},
   fuzzy_threshold : {None, <<50>>},
   cache_ttl_seconds : {None, <<1>>, <<2>>}]

\* The classes of the configuration object: az_pim_cli.config.Config, which
\* cli.py imports and constructs, and EnhancedConfig of infra/config_adapter.py.
ConfigClasses == {"Config", "EnhancedConfig"}

\* Config.get_default(self, key): the stored value or None.
get_default(defaults, key) == defaults[key]

\* EnhancedConfig.get_default(self, key, fallback=None)
get_default_fallback(defaults, key, fallback) ==
  IF defaults[key] # None THEN defaults[key] ELSE Some(fallback)

\* Positional parameters get_default accepts after self.
GetDefaultParams(config_class) == IF config_class = "Config" THEN 1 ELSE 2

DefaultTTL == 300

\* get_resolver(config): each setting is asked for as get_default(key,
\* fallback), with two positional arguments; a get_default that takes one
\* raises TypeError at the first of them.
get_resolver(config_class, defaults) ==
  IF GetDefaultParams(config_class) < 2 THEN [raises |-> "TypeError"]
  ELSE [raises |-> "none",
        fuzzy_enabled |-> get_default_fallback(defaults, "fuzzy_matching", TRUE)[1],
        fuzzy_threshold |->
          get_default_fallback(defaults, "fuzzy_threshold", DefaultThreshold)[1],
        cache_ttl_seconds |->
          get_default_fallback(defaults, "cache_ttl_seconds", DefaultTTL)[1]]

\* A call get_resolver(config); the InputResolver it returns replaces the one
\* in use.
GetResolver(config_class, defaults) ==
  /\ pc = "idle"
  /\ call' = [op |-> "get_resolver", config_class |-> config_class,
              defaults |-> defaults]
  /\ LET built == get_resolver(config_class, defaults)
     IN IF built.raises # "none" THEN
          /\ raised' = built.raises
          /\ result' = None
          /\ UNCHANGED <<fuzzy_enabled, fuzzy_threshold, cache_ttl_seconds, cache>>
        ELSE
          /\ raised' = "none"
          /\ result' = Some("InputResolver")
          /\ fuzzy_enabled' = built.fuzzy_enabled
          /\ fuzzy_threshold' = built.fuzzy_threshold
          /\ cache_ttl_seconds' = built.cache_ttl_seconds
          /\ cache' = EmptyCache
  /\ pc' = "done"
  /\ last_op' = NoOp
  /\ UNCHANGED <<is_tty, HAS_RAPIDFUZZ, env, now, matches, out, engine_calls,
                 extractor_calls, reads, last_read>>

\* ------------------------------------------------------------ CLI: the picker
\* `role_item.alias_name or role_item.name`
PickerName(role) ==
  IF role.alias_name # None /\ role.alias_name[1] # << >> THEN role.alias_name[1]
  ELSE role.name

\* The score of a role for a search term: fuzz.ratio / 100 or SequenceMatcher's
\* ratio, both on the lowered strings.
PickerScore(selection, role) ==
  IF HAS_RAPIDFUZZ THEN FuzzRatio(Lower(selection), Lower(PickerName(role)))
  ELSE SeqRatio(Lower(selection), Lower(PickerName(role)))

\* matched_roles: the roles whose score reaches the threshold or whose name
\* contains the term, then matched_roles.sort(key=score, reverse=True).
matched_roles(selection, all_roles, threshold) ==
  LET scored == [i \in 1..Len(all_roles) |->
                   [index |-> i, role |-> all_roles[i],
                    score |-> PickerScore(selection, all_roles[i])]]
      kept   == SelectSeq(scored, LAMBDA m :
                  \/ AtLeastPct(m.score, threshold)
                  \/ HasSub(Lower(PickerName(m.role)), Lower(selection)))
  IN SortByScore(kept)

\* renumbered_roles: the matched roles in score order.
renumbered_roles(matched) == [i \in 1..Len(matched) |-> matched[i].role]

\* filtered_alias_roles and filtered_azure_roles: the matched aliases and the
\* matched Azure roles, each in score order.
filtered_alias_roles(matched) ==
  SelectSeq(renumbered_roles(matched), LAMBDA r : r.is_alias)
filtered_azure_roles(matched) ==
  SelectSeq(renumbered_roles(matched), LAMBDA r : ~r.is_alias)

\* The two tables the picker prints, full or filtered: aliases numbered from
\* 1, Azure roles from the number of aliases shown + 1.
PickerDisplay(alias_roles, azure_roles) ==
  [shown |-> TRUE, resource |-> FALSE, scope |-> None,
   aliases |-> aliases, upstream |-> upstream,
   entries |-> AliasRows(alias_roles) \o AzureRows(alias_roles, azure_roles)]

PickerMsg(kind) == <<PlainMsg(kind, << >>)>>

\* `az-pim activate` without a role: aliases and directory roles are loaded
\* and displayed, and the command waits at the "Select" prompt.
PickerOpen(interactive, config_class, defaults) ==
  LET answer      == ClientList(DirectoryRequest, None)
      alias_roles == AliasRoles(aliases)
      azure_roles == normalize_roles(answer.roles)
      all_roles   == alias_roles \o azure_roles
      cmd == [op |-> "picker", config_class |-> config_class, defaults |-> defaults,
              all_roles |-> << >>, renumbered |-> << >>, listing |-> "none",
              selection |-> << >>, term |-> << >>]
  IN
  /\ pc = "idle"
  /\ last_op' = NoOp
  /\ UNCHANGED <<config, aliases, upstream, cache, now, reads, last_read, matches,
                 engine_calls, extractor_calls>>
  /\ result' = None
  /\ IF ~interactive THEN
       /\ call' = cmd /\ pc' = "done" /\ raised' = "Exit"
       /\ out' = PickerMsg("role_required") /\ displayed' = displayed
     ELSE IF answer.raises # "none" THEN
       /\ call' = cmd /\ pc' = "done" /\ raised' = answer.raises
       /\ out' = << >> /\ displayed' = displayed
     ELSE IF all_roles = << >> THEN
       /\ call' = cmd /\ pc' = "done" /\ raised' = "Exit"
       /\ out' = PickerMsg("no_roles") /\ displayed' = displayed
     ELSE
       /\ call' = [cmd EXCEPT !.all_roles = all_roles, !.listing = "full"]
       /\ pc' = "select" /\ raised' = "none" /\ out' = << >>
       /\ displayed' = PickerDisplay(alias_roles, azure_roles)

\* The answer to "Select": nothing cancels, a number picks from all_roles,
\* anything else is a search term and the matching roles are displayed.
PickerSelect(selection) ==
  LET role_idx  == PyInt(selection)
      all_roles == call.all_roles
      threshold == get_default_fallback(call.defaults, "fuzzy_threshold", 60)[1]
      matched   == matched_roles(selection, all_roles, threshold)
  IN
  /\ pc = "select"
  /\ last_op' = NoOp
  /\ UNCHANGED <<config, aliases, upstream, cache, now, reads, last_read, matches,
                 engine_calls, extractor_calls>>
  /\ IF selection = << >> THEN
       /\ call' = call /\ pc' = "done" /\ raised' = "Exit" /\ result' = None
       /\ out' = PickerMsg("cancelled") /\ displayed' = displayed
     ELSE IF role_idx # None THEN
       /\ call' = [call EXCEPT !.selection = selection]
       /\ pc' = "done" /\ displayed' = displayed
       /\ IF 1 <= role_idx[1] /\ role_idx[1] <= Len(all_roles) THEN
            /\ result' = Some(all_roles[role_idx[1]])
            /\ raised' = "none" /\ out' = << >>
          ELSE
            /\ result' = None /\ raised' = "Exit"
            /\ out' = PickerMsg("invalid_role_number")
     ELSE IF GetDefaultParams(call.config_class) < 2 THEN
       \* config.get_default("fuzzy_threshold", 0.6)
       /\ call' = [call EXCEPT !.term = selection]
       /\ pc' = "done" /\ raised' = "TypeError" /\ result' = None
       /\ out' = << >> /\ displayed' = displayed
     ELSE IF matched = << >> THEN
       /\ call' = [call EXCEPT !.term = selection]
       /\ pc' = "done" /\ raised' = "Exit" /\ result' = None
       /\ out' = PickerMsg("no_match") /\ displayed' = displayed
     ELSE
       /\ call' = [call EXCEPT !.term = selection, !.listing = "filtered",
                               !.renumbered = renumbered_roles(matched)]
       /\ pc' = "filtered" /\ raised' = "none" /\ result' = None /\ out' = << >>
       /\ displayed' = PickerDisplay(filtered_alias_roles(matched),
                                     filtered_azure_roles(matched))

\* The answer to "Enter role number to activate" under the filtered listing.
PickerSelectFiltered(num_selection) ==
  LET filtered_idx == PyInt(num_selection)
  IN
  /\ pc = "filtered"
  /\ pc' = "done"
  /\ last_op' = NoOp
  /\ UNCHANGED <<config, env, cache, now, reads, last_read, matches,
                 engine_calls, extractor_calls>>
  /\ IF num_selection = << >> THEN
       /\ call' = call /\ raised' = "Exit" /\ result' = None
       /\ out' = PickerMsg("cancelled")
     ELSE IF filtered_idx = None THEN
       /\ call' = call /\ raised' = "Exit" /\ result' = None
       /\ out' = PickerMsg("invalid_input")
     ELSE
       /\ call' = [call EXCEPT !.selection = num_selection]
       /\ IF 1 <= filtered_idx[1] /\ filtered_idx[1] <= Len(call.renumbered) THEN
            /\ result' = Some(call.renumbered[filtered_idx[1]])
            /\ raised' = "none" /\ out' = << >>
          ELSE
            /\ result' = None /\ raised' = "Exit"
            /\ out' = PickerMsg("invalid_selection")

\* ------------------------------------------------------------ specifications
\* InputResolver.__init__: the configuration is stored, the cache is empty.
Init ==
  /\ fuzzy_enabled \in BOOLEAN
  /\ fuzzy_threshold \in Thresholds
  /\ cache_ttl_seconds \in TTLs
  /\ is_tty \in BOOLEAN
  /\ HAS_RAPIDFUZZ \in BOOLEAN
  /\ cache = EmptyCache
  /\ now = 0
  /\ pc = "idle"
  /\ call = NoCall
  /\ matches = << >>
  /\ result = None
  /\ raised = "none"
  /\ out = << >>
  /\ engine_calls = 0
  /\ extractor_calls = 0
  /\ reads = 0
  /\ last_read = NoRead
  /\ last_op = NoOp
  /\ aliases \in AliasConfigs
  /\ upstream \in Upstreams
  /\ displayed = NoDisplay

\* The resolver on its own: the CLI's surroundings are fixed.
NoCli == aliases = << >> /\ upstream = Upstream1

\* Direct calls of resolve() on a resolver with one cache lifetime.
InitResolve == Init /\ NoCli /\ cache_ttl_seconds = 1

NextResolve ==
  \/ \E user_input \in Inputs, names \in NameLists, allow_interactive \in BOOLEAN :
       Resolve(user_input, names, allow_interactive, None)
  \/ \E line \in Lines : PromptRead(line)
  \/ \E exc \in PromptInterrupts : PromptInterrupt(exc)
  \/ Return

SpecResolve == InitResolve /\ [][NextResolve]_vars

\* The cache of one resolver, used directly, as time passes.
InitCache ==
  /\ Init
  /\ NoCli
  /\ fuzzy_enabled
  /\ fuzzy_threshold = DefaultThreshold
  /\ ~is_tty
  /\ HAS_RAPIDFUZZ

NextCache ==
  \/ \E key \in Keys : GetCached(key)
  \/ \E key \in Keys, names \in CacheData : SetCache(key, Candidates(names))
  \/ ClearCache
  \/ Tick

SpecCache == InitCache /\ [][NextCache]_vars

\* Role resolution through the cache as the CLI uses it: resolve_role calls,
\* their prompts, clear_cache and the passing of time.
InitRole ==
  /\ Init
  /\ NoCli
  /\ fuzzy_enabled
  /\ fuzzy_threshold = DefaultThreshold
  /\ HAS_RAPIDFUZZ

Next ==
  \/ \E role_input \in RoleInputs, scope \in Scopes, fetch \in FetchOutcomes :
       ResolveRole(role_input, scope, fetch)
  \/ \E line \in Lines : PromptRead(line)
  \/ \E exc \in PromptInterrupts : PromptInterrupt(exc)
  \/ Return
  \/ ClearCache
  \/ Tick

Spec == InitRole /\ [][Next]_vars

\* The helpers and the facade over one resolver's cache: resolve_role and
\* resolve_scope calls, direct resolve() and cache calls, and the passing of time.
HelperKeys == {RoleKey("S1"), ScopeKey(None)}
HelperInputs == {ab, xx, <<"1">>}
HelperLists == {<<abc, abd>>, << >>}
ScopeInputInputs == {ab, xx, <<"s">>, SubscriptionsWord \o xx, SubscriptionsPrefix \o xx,
                     <<"a", "/">> \o SubscriptionsWord}
HelperFetches == {Returns(names) : names \in HelperLists} \cup {Raises("NetworkError")}

NextHelpers ==
  \/ \E role_input \in HelperInputs, fetch \in HelperFetches :
       ResolveRole(role_input, "S1", fetch)
  \/ \E scope_input \in {ab, xx, Slash}, fetch \in HelperFetches :
       ResolveScope(scope_input, None, fetch)
  \/ \E scope_input \in ScopeInputs, subscription_id \in {None, Some("sub1")} :
       ResolveScope(scope_input, subscription_id, NoFetch)
  \/ ResolveScopeReturn
  \/ \E scope_input \in ScopeInputInputs, has_client_config \in BOOLEAN,
        resolver_outcome \in ResolverOutcomes, discovery \in Discoveries :
       ResolveScopeInput(scope_input, has_client_config, resolver_outcome, discovery)
  \/ ResolveScopeInputReturn
  \/ \E user_input \in {ab, xx}, names \in HelperLists, allow_interactive \in BOOLEAN,
        cache_key \in {None, Some(RoleKey("S1"))} :
       Resolve(user_input, names, allow_interactive, cache_key)
  \/ \E key \in HelperKeys : GetCached(key)
  \/ \E key \in HelperKeys, names \in HelperLists : SetCache(key, Candidates(names))
  \/ \E line \in Lines : PromptRead(line)
  \/ \E exc \in PromptInterrupts : PromptInterrupt(exc)
  \/ Return
  \/ ClearCache
  \/ Tick

\* One cache lifetime is enough here: expiry is covered by Spec and SpecCache.
InitHelpers == InitRole /\ cache_ttl_seconds = 1

SpecHelpers == InitHelpers /\ [][NextHelpers]_vars

\* The commands of the CLI, one process each, over a configuration file and
\* role data that change between commands.
CliTokens == {ab, <<"1">>, <<"#", "1">>, <<"2">>, <<"#", "3">>, <<"0">>, <<"5">>,
              <<"#">>, <<"#", "-", "1">>, <<"#", "a">>, <<"-", "1">>}
CliScopes == {DefaultScopePath, ResourceGroupPath(abc), ab}

InitCli ==
  /\ Init
  /\ fuzzy_enabled
  /\ fuzzy_threshold = DefaultThreshold
  /\ HAS_RAPIDFUZZ
  /\ cache_ttl_seconds = 1

NextCli ==
  \/ \E resource \in BOOLEAN, scope \in ScopeArgs, limit \in Limits,
        resolver_outcome \in ResolverOutcomes :
       ListRoles(resource, scope, limit, resolver_outcome)
  \/ ListRolesContinue
  \/ \E role_input \in CliTokens, resource \in BOOLEAN, scope \in ScopeArgs :
       ActivateRole(role_input, resource, scope)
  \/ \E role_input \in CliTokens, scope \in CliScopes :
       ActivateResolveRole(role_input, scope)
  \/ \E line \in Lines : PromptRead(line)
  \/ \E exc \in PromptInterrupts : PromptInterrupt(exc)
  \/ \E als \in AliasConfigs : AliasesChange(als)
  \/ \E up \in Upstreams : UpstreamChange(up)
  \/ CommandExit

SpecCli == InitCli /\ [][NextCli]_vars

\* The match engine on lists chosen for the fuzzy tier: equal and different
\* scores, names that occur twice, more names than difflib returns.
InitConfig == Init /\ NoCli
NextConfig ==
  \/ \E config_class \in ConfigClasses, defaults \in DefaultsSections :
       GetResolver(config_class, defaults)
  \/ Return
SpecConfig == InitConfig /\ [][NextConfig]_vars

\* fetch_roles_fn() of a resolve_role call for `scope`: each role it returns
\* is marked with the scope it was fetched for and the time of the fetch.
StampedFetch(scope, names) ==
  [raises |-> "none",
   roles |-> [i \in 1..Len(names) |-> [id |-> <<scope, now, i>>, name |-> names[i]]]]

ProvenanceInputs == {ab, <<"1">>, <<"#", "2">>, xx}
ProvenanceLists == {<< >>, <<ab>>, <<abc, ab>>, <<ab, ab>>}

\* resolve_role calls on one resolver whose cache nothing else writes.
NextProvenance ==
  \/ \E role_input \in ProvenanceInputs, scope \in Scopes, names \in ProvenanceLists :
       ResolveRole(role_input, scope, StampedFetch(scope, names))
  \/ \E role_input \in ProvenanceInputs, scope \in Scopes, exc \in FetchErrors :
       ResolveRole(role_input, scope, Raises(exc))
  \/ \E line \in Lines : PromptRead(line)
  \/ \E exc \in PromptInterrupts : PromptInterrupt(exc)
  \/ Return
  \/ ClearCache
  \/ Tick
SpecProvenance == InitRole /\ [][NextProvenance]_vars

\* What is typed at the prompts of the picker.
PickerLines == {<< >>, <<"1">>, <<"2">>, <<"3">>, <<"5">>, <<"0">>, <<"-", "1">>,
                abc, bc, <<"b">>, <<"B", "c">>, xx, <<"z">>}
PickerDefaults == {d \in DefaultsSections :
                     d.fuzzy_matching = None /\ d.cache_ttl_seconds = None}

InitPicker == Init /\ fuzzy_enabled /\ fuzzy_threshold = DefaultThreshold
                   /\ cache_ttl_seconds = 1 /\ is_tty
NextPicker ==
  \/ \E interactive \in BOOLEAN, config_class \in ConfigClasses,
        defaults \in PickerDefaults :
       PickerOpen(interactive, config_class, defaults)
  \/ \E selection \in PickerLines : PickerSelect(selection)
  \/ \E num_selection \in PickerLines : PickerSelectFiltered(num_selection)
  \/ CommandExit
SpecPicker == InitPicker /\ [][NextPicker]_vars

FuzzyInputs == {bc, aba, abx, abcd, xx}
FuzzyLists == {<<abc, abd>>, <<abd, abc>>, <<abc, abc>>, <<abc, abd, abc>>,
               <<bca, abc>>, <<abcd, ab, abd>>, ElevenNames}

InitFuzzy == Init /\ NoCli /\ cache_ttl_seconds = 1

NextFuzzy ==
  \/ \E user_input \in FuzzyInputs, names \in FuzzyLists, allow_interactive \in BOOLEAN :
       Resolve(user_input, names, allow_interactive, None)
  \/ \E line \in Lines : PromptRead(line)
  \/ \E exc \in PromptInterrupts : PromptInterrupt(exc)
  \/ Return

SpecFuzzy == InitFuzzy /\ [][NextFuzzy]_vars

\* ------------------------------------------------------------ properties
InCall == call.op # "none"

Printed(kind) == \E i \in DOMAIN out : out[i].kind = kind

CandidateName(i) == call.candidates[i].name

ExactSat  == \E i \in DOMAIN call.candidates : CandidateName(i) = call.user_input
CISat     == \E i \in DOMAIN call.candidates :
               Lower(CandidateName(i)) = Lower(call.user_input)
PrefixSat == \E i \in DOMAIN call.candidates :
               StartsWith(Lower(CandidateName(i)), Lower(call.user_input))

\* Some candidate's similarity to the input reaches the threshold, by the
\* installed backend's measure, and fuzzy matching is enabled.
FuzzySat ==
  /\ fuzzy_enabled
  /\ \E i \in DOMAIN call.candidates :
       AtLeastPct(IF HAS_RAPIDFUZZ THEN FuzzRatio(call.user_input, CandidateName(i))
                                   ELSE SeqRatio(CandidateName(i), call.user_input),
                  fuzzy_threshold)

AllOfTier(strategy) ==
  /\ matches # << >>
  /\ \A i \in DOMAIN matches : matches[i].strategy = strategy

\* C1: the matches of _find_matches all carry one strategy, the first tier of
\* Exact, CaseInsensitive, Prefix, Fuzzy that some candidate satisfies; with an
\* exact match present only candidates named exactly like the input are returned.
C1_SingleTier ==
  engine_calls > 0 =>
    /\ \A i, j \in DOMAIN matches : matches[i].strategy = matches[j].strategy
    /\ ExactSat =>
         AllOfTier(EXACT) /\ \A i \in DOMAIN matches : matches[i].name = call.user_input
    /\ (~ExactSat /\ CISat) => AllOfTier(CASE_INSENSITIVE)
    /\ (~ExactSat /\ ~CISat /\ PrefixSat) => AllOfTier(PREFIX)
    /\ (~ExactSat /\ ~CISat /\ ~PrefixSat /\ FuzzySat) => AllOfTier(FUZZY)
    /\ (~ExactSat /\ ~CISat /\ ~PrefixSat /\ ~FuzzySat) => matches = << >>

\* An exact match was returned although another candidate matches the input
\* case-insensitively.
C1_Witness ==
  /\ pc = "done"
  /\ ExactSat
  /\ \E i \in DOMAIN call.candidates :
       CandidateName(i) # call.user_input /\ Lower(CandidateName(i)) = Lower(call.user_input)
  /\ AllOfTier(EXACT)

\* C2: a sole match is returned without a prompt whatever is_tty and
\* allow_interactive are, and a note is printed iff its strategy is not Exact.
C2_SoleMatch ==
  (InCall /\ Len(matches) = 1) =>
    /\ pc = "done"
    /\ result = Some(matches[1].item)
    /\ reads = 0
    /\ last_read = NoRead
    /\ ~Printed("choices")
    /\ Printed("match_info") <=> matches[1].strategy # EXACT

C2_Witness ==
  /\ pc = "done"
  /\ Len(matches) = 1
  /\ matches[1].strategy = CASE_INSENSITIVE
  /\ is_tty
  /\ call.allow_interactive
  /\ Len(call.candidates) > 1
  /\ Printed("match_info")
  /\ result = Some(matches[1].item)

C4_InteractiveChoice ==
  (InCall /\ Len(matches) >= 2 /\ is_tty /\ call.allow_interactive) =>
    /\ \E i \in DOMAIN out :
         out[i].kind = "choices" /\ out[i].names = MatchNames(matches)
    /\ \A k \in 1..Len(matches) :
         (pc = "done" /\ last_read = Read(Str(k), "none")) =>
           /\ result = Some(matches[k].item)
           /\ \E i \in DOMAIN call.candidates : call.candidates[i] = result[1]

C4_Witness ==
  /\ pc = "done"
  /\ Len(matches) >= 2
  /\ last_read = Read(Str(2), "none")
  /\ result = Some(matches[2].item)
  /\ matches[2].item # matches[1].item

Min(a, b) == IF a <= b THEN a ELSE b

\* Candidates a fresh pass over the full list can suggest: with rapidfuzz all
\* of them (no cutoff), with difflib those whose ratio reaches the cutoff.
Suggestable ==
  {i \in DOMAIN call.candidates :
     HAS_RAPIDFUZZ \/ AtLeastPct(SeqRatio(CandidateName(i), call.user_input), SuggestionCutoff)}

\* C7: no match: absent, one 'not found' diagnostic with at most 3 suggested
\* names, as many as a pass over the full candidate list yields, whether or not
\* fuzzy matching is enabled and whatever the primary fuzzy tier returned.
C7_NoMatchSuggestions ==
  (pc = "done" /\ engine_calls > 0 /\ matches = << >>) =>
    /\ result = None
    /\ Len(out) = 1
    /\ out[1].kind = "not_found"
    /\ Len(out[1].names) <= 3
    /\ Len(out[1].names) = Min(3, Cardinality(Suggestable))
    /\ \A k \in DOMAIN out[1].names :
         \E i \in Suggestable : CandidateName(i) = out[1].names[k]

C7_Witness ==
  /\ pc = "done"
  /\ engine_calls > 0
  /\ matches = << >>
  /\ ~fuzzy_enabled
  /\ Len(call.candidates) > 3
  /\ Cardinality(Suggestable) > 3
  /\ Len(out[1].names) = 3

\* C8: empty candidates or empty input: absent with the matching diagnostic,
\* the match engine and name_extractor are never called; the candidates guard
\* comes first.
C8_Guards ==
  (InCall /\ (call.candidates = << >> \/ call.user_input = << >>)) =>
    /\ pc = "done"
    /\ result = None
    /\ engine_calls = 0
    /\ extractor_calls = 0
    /\ matches = << >>
    /\ Len(out) = 1
    /\ out[1].kind = IF call.candidates = << >> THEN "no_candidates" ELSE "input_required"

C8_Witness ==
  /\ pc = "done"
  /\ call.op = "resolve"
  /\ call.candidates = << >>
  /\ call.user_input = << >>
  /\ out = _show_error("no_candidates")
  /\ result = None

\* The entry of key exists and is no older than the TTL.
Live(key) ==
  /\ key \in DOMAIN cache
  /\ now - cache[key].timestamp <= cache_ttl_seconds

\* C9: get_cached(key) returns the stored data iff an entry exists and the time
\* since the most recent set_cache(key) is at most the TTL (inclusive);
\* otherwise absent, and a stale entry is removed.  An entry appears or changes
\* only by set_cache(key), stamped with the time of that call: a removed entry
\* stays absent until then, and a read leaves a live entry and its lifetime alone.
C9_GetCached ==
  [][\A key \in Keys :
       /\ GetCached(key) =>
            /\ last_op'.ret = IF Live(key) THEN Some(cache[key].data) ELSE None
            /\ ~Live(key) => key \notin DOMAIN cache'
            /\ Live(key) => (key \in DOMAIN cache' /\ cache'[key] = cache[key])
       /\ (key \in DOMAIN cache' /\ (key \notin DOMAIN cache \/ cache'[key] # cache[key])) =>
            /\ last_op' = Op("set", key, None)
            /\ cache'[key].timestamp = now
    ]_vars

\* A read exactly cache_ttl_seconds after the set returned the data.
C9_Witness ==
  /\ last_op.op = "get"
  /\ last_op.ret # None
  /\ last_op.key \in DOMAIN cache
  /\ now - cache[last_op.key].timestamp = cache_ttl_seconds
  /\ last_op.ret = Some(cache[last_op.key].data)

OthersUntouched(key) ==
  \A k \in Keys \ {key} :
    /\ k \in DOMAIN cache <=> k \in DOMAIN cache'
    /\ k \in DOMAIN cache => cache'[k] = cache[k]

\* C10: set_cache(key, data) stores data stamped with the current time in place
\* of any previous entry of key and touches no other key; get_cached(key)
\* touches no other key either, also when that key's entry has expired.
C10_CacheFrame ==
  [][\A key \in Keys :
       /\ \A names \in CacheData :
            SetCache(key, Candidates(names)) =>
              /\ key \in DOMAIN cache'
              /\ cache'[key] = CacheEntry(Candidates(names), now)
              /\ OthersUntouched(key)
       /\ GetCached(key) => OthersUntouched(key)
    ]_vars

\* After a read of one key the expired entry of another key is still stored.
C10_Witness ==
  /\ last_op.op = "get"
  /\ \E k \in Keys \ {last_op.key} : k \in DOMAIN cache /\ Expired(cache[k])

\* The last thing the prompt read was a line the user typed.
LineRead == InCall /\ reads >= 1 /\ last_read.exc = "none"

\* A typed line that is not a number or names no listed match.
InvalidSelection(line) ==
  /\ line # << >>
  /\ \/ ~IsDigits(Strip(line))
     \/ ParseInt(Strip(line)) \notin 1..Len(matches)

C6_Cancelled ==
  /\ []((pc = "done" /\ last_read.exc \in {"KeyboardInterrupt", "EOFError"}) =>
          /\ raised = "none"
          /\ result = None
          /\ Printed("cancelled"))
  /\ [][\A exc \in {"KeyboardInterrupt", "EOFError"} :
          PromptInterrupt(exc) => (cache' = cache /\ pc' = "done")]_vars

C6_Witness ==
  /\ pc = "done"
  /\ last_read.exc = "KeyboardInterrupt"
  /\ result = None
  /\ raised = "none"
  /\ cache # EmptyCache

\* A step of resolve_role for the key.
RoleStep(key) == pc = "idle" /\ call'.op = "resolve_role" /\ call'.cache_key = Some(key)

\* C12: a resolve_role call whose scope has an entry no older than the TTL (the
\* entry is stamped with the time of the fetch that stored it) does not call
\* fetch_roles_fn and resolves against the stored list, also an empty one,
\* returning one of its objects; until a clear_cache such an entry stays as it is.
C12_FetchOnce ==
  [][\A key \in Keys :
       /\ (RoleStep(key) /\ Live(key)) =>
            /\ ~call'.fetched
            /\ call'.candidates = cache[key].data
            /\ cache' = cache
            /\ (pc' = "done" /\ result' # None) =>
                 \E i \in DOMAIN cache[key].data : result'[1] = cache[key].data[i]
       /\ (RoleStep(key) /\ call'.fetched /\ raised' = "none") =>
            cache'[key] = CacheEntry(call'.candidates, now)
       /\ (key \in DOMAIN cache /\ last_op'.op # "clear"
             /\ now' - cache[key].timestamp <= cache_ttl_seconds) =>
            (key \in DOMAIN cache' /\ cache'[key] = cache[key])
    ]_vars

\* A call at the very end of the lifetime of a stored empty list did not fetch.
C12_Witness ==
  /\ call.op = "resolve_role"
  /\ ~call.fetched
  /\ call.candidates = << >>
  /\ call.cache_key[1] \in DOMAIN cache
  /\ now - cache[call.cache_key[1]].timestamp = cache_ttl_seconds
  /\ now > 0

\* The step is a fetch by resolve_role that stores its list under the key.
FetchStored(key) ==
  /\ RoleStep(key)
  /\ call'.fetched
  /\ raised' = "none"
  /\ key \in DOMAIN cache'
  /\ cache'[key] = CacheEntry(call'.candidates, now)

\* C13: an entry appears or changes only when a fetch for its key succeeds, and
\* is then exactly the fetched list stamped with the time of the call; it
\* disappears only by clear_cache or by a read that finds it expired; a
\* resolve_role that finds the entry expired removes it, fetches, and stores the
\* new list if the fetch succeeds.
C13_MostRecentFetch ==
  [][\A key \in Keys :
       /\ (key \in DOMAIN cache' /\ (key \notin DOMAIN cache \/ cache'[key] # cache[key])) =>
            FetchStored(key)
       /\ (key \in DOMAIN cache /\ key \notin DOMAIN cache') =>
            \/ last_op'.op = "clear"
            \/ RoleStep(key) /\ Expired(cache[key]) /\ raised' # "none"
       /\ (RoleStep(key) /\ key \in DOMAIN cache /\ Expired(cache[key])) =>
            /\ call'.fetched
            /\ IF raised' = "none" THEN FetchStored(key) ELSE key \notin DOMAIN cache'
    ]_vars

\* A fetch replaced the expired entry of its key while the stale entry of
\* another key is still stored.
C13_Witness ==
  /\ call.op = "resolve_role"
  /\ call.fetched
  /\ raised = "none"
  /\ now > cache_ttl_seconds
  /\ cache[call.cache_key[1]] = CacheEntry(call.candidates, now)
  /\ \E k \in Keys \ {call.cache_key[1]} : k \in DOMAIN cache /\ Expired(cache[k])

\* A step in which resolve_role or resolve_scope looks the key up.
HelperStep(key) ==
  /\ pc = "idle"
  /\ call'.op \in {"resolve_role", "resolve_scope"}
  /\ call'.cache_key = Some(key)

\* C11: clear_cache leaves no entry at all; a key without an entry reads as
\* absent and gets an entry again only by a set_cache for it (a direct one or
\* the one after a helper's fetch); a resolve_role or resolve_scope call that
\* finds no entry for its key calls its fetch function.
C11_ClearCache ==
  [][\A key \in HelperKeys :
       /\ last_op'.op = "clear" => key \notin DOMAIN cache'
       /\ (key \notin DOMAIN cache /\ last_op'.op = "get" /\ last_op'.key = key) =>
            (last_op'.ret = None /\ key \notin DOMAIN cache')
       /\ (key \notin DOMAIN cache /\ key \in DOMAIN cache') =>
            \/ last_op' = Op("set", key, None)
            \/ HelperStep(key) /\ call'.fetched /\ raised' = "none"
       /\ (key \notin DOMAIN cache /\ HelperStep(key)) => call'.fetched
    ]_vars

\* clear_cache has just emptied the cache, some time after construction.
C11_Witness ==
  /\ last_op.op = "clear"
  /\ cache = EmptyCache
  /\ now > 0
  /\ pc = "idle"

\* C15: from its call to its return resolve() leaves the cache as it is,
\* whatever cache_key it was given, and what it returns is one of the
\* candidates passed in.
C15_ResolveLeavesCache ==
  /\ [][(call.op = "resolve" \/ call'.op = "resolve") => cache' = cache]_vars
  /\ []((call.op = "resolve" /\ pc = "done" /\ result # None) =>
          \E i \in DOMAIN call.candidates : call.candidates[i] = result[1])

\* resolve() returned a candidate while its cache_key holds another list.
C15_Witness ==
  /\ call.op = "resolve"
  /\ pc = "done"
  /\ result # None
  /\ call.cache_key # None
  /\ call.cache_key[1] \in DOMAIN cache
  /\ cache[call.cache_key[1]].data # call.candidates
  /\ reads > 0

\* The fetch function of the call in progress was invoked and raised.
FetchFailure ==
  /\ call.op \in {"resolve_role", "resolve_scope", "resolve_scope_input"}
  /\ call.fetch_raises # "none"

\* The helper of the call in progress has returned or raised.
HelperEnded == pc = "done" /\ ~Pending

\* C14 as stated: in resolve_role, resolve_scope and resolve_scope_input a
\* failure of the fetch function reaches the caller unchanged, without a result.
C14_FailurePropagatesEverywhere ==
  (FetchFailure /\ HelperEnded) => (raised = call.fetch_raises /\ result = None)

\* C14 (amended): a failure of the fetch function reaches the caller of
\* resolve_role and resolve_scope unchanged, with no result, no diagnostic, no
\* cache entry for the key, and the next call for the key fetches again;
\* resolve_scope_input catches the failure of its discovery, resolves against
\* the current subscription alone and returns its path or the default
\* resource-group path, raising nothing.
C14_FailurePropagation ==
  /\ []((FetchFailure /\ HelperEnded /\ call.op # "resolve_scope_input") =>
          /\ raised = call.fetch_raises
          /\ result = None
          /\ out = << >>
          /\ engine_calls = 0
          /\ call.cache_key[1] \notin DOMAIN cache)
  /\ [][\A key \in HelperKeys :
          (key \notin DOMAIN cache /\ HelperStep(key)) => call'.fetched]_vars
  /\ []((FetchFailure /\ HelperEnded /\ call.op = "resolve_scope_input") =>
          /\ raised = "none"
          /\ call.candidates =
               <<[id |-> SubscriptionPath, name |-> IdChars(CurrentSubscription)]>>
          /\ result = IF matches # << >> THEN Some(SubscriptionPath)
                      ELSE Some(DefaultScope(call.user_input)))
  /\ [][(call'.op = "resolve_scope_input" \/ call.op = "resolve_scope_input") =>
          cache' = cache]_vars

\* resolve_scope raised the failure of its fetch function at a time when
\* entries can have expired.
C14_Witness ==
  /\ FetchFailure /\ HelperEnded
  /\ call.op = "resolve_scope"
  /\ raised = "NetworkError"
  /\ now > 0

\* resolve_scope_input returned the subscription's path after its discovery failed.
ScopeInputAfterFailure ==
  /\ FetchFailure /\ HelperEnded
  /\ call.op = "resolve_scope_input"
  /\ result = Some(SubscriptionPath)

\* The token matches ^#?\d+$, and the integer it then denotes.
Digits(token) == IF token # << >> /\ token[1] = "#" THEN Tail(token) ELSE token
Positional(token) == IsDigits(Digits(token))
PositionOf(token) == ParseInt(Digits(token))

\* A numeric-addressing path has run to its end with its list fetched.
NumericPathEnded ==
  /\ call.op \in {"resolve_role", "activate"}
  /\ pc = "done"
  /\ call.fetch_raises = "none"

NumberDiagnostic ==
  Printed("invalid_number") \/ Printed("invalid_number_format") \/ Printed("invalid_list_number")

\* The token was used as a position: the item at it was taken from the list
\* without matching, or the position was reported as invalid.
UsedAsPosition(n) ==
  /\ engine_calls = 0
  /\ IF 1 <= n /\ n <= Len(call.candidates)
       THEN result = Some(call.candidates[n]) /\ ~NumberDiagnostic
       ELSE result = None /\ NumberDiagnostic

\* The token went on to name resolution: resolve_role handed it to resolve(),
\* activate skipped its numeric block.
UsedAsName ==
  /\ ~NumberDiagnostic
  /\ raised # "Exit"
  /\ IF call.op = "activate" THEN ~call.numeric
     ELSE engine_calls > 0 \/ Printed("no_candidates") \/ Printed("input_required")

\* C16: in resolve_role and in activate a token is used as a position if and
\* only if it matches ^#?\d+$; every other token goes to name resolution and
\* meets no number-format or invalid-number diagnostic.
C16_PositionalIffPattern ==
  NumericPathEnded =>
    IF Positional(call.user_input) THEN UsedAsPosition(PositionOf(call.user_input))
    ELSE UsedAsName

\* resolve_role reported a token that does not match the pattern as a number.
NonPositionalAsNumber ==
  /\ NumericPathEnded
  /\ call.op = "resolve_role"
  /\ ~Positional(call.user_input)
  /\ Printed("invalid_number")

\* C17: a positional token of value N against a list of length L, in
\* resolve_role and in activate: with 1 <= N <= L the item at position N is
\* selected, whether the token is "N" or "#N"; with N = 0 or N > L nothing is
\* selected and a diagnostic naming the range 1..L is printed.
C17_NumberInRange ==
  (NumericPathEnded /\ Positional(call.user_input)) =>
    LET N == PositionOf(call.user_input)
        L == Len(call.candidates)
    IN IF 1 <= N /\ N <= L
         THEN /\ result = Some(call.candidates[N])
              /\ raised = "none"
              /\ out = << >>
         ELSE /\ result = None
              /\ Len(out) = 1
              /\ out[1].kind \in {"invalid_number", "invalid_list_number"}
              /\ out[1].upto = L

\* resolve_role took the last of three roles for "#3".
C17_Witness ==
  /\ NumericPathEnded
  /\ call.op = "resolve_role"
  /\ call.user_input = <<"#", "3">>
  /\ Len(call.candidates) = 3
  /\ result = Some(call.candidates[3])

\* activate reported "5" against a list of fewer entries.
ActivateOutOfRange ==
  /\ NumericPathEnded
  /\ call.op = "activate"
  /\ call.user_input = <<"5">>
  /\ Printed("invalid_list_number")

\* C18: for a positional token resolve_role picks by index alone: the match
\* engine is not invoked and no name is extracted, whether the index is in
\* range or not and whether or not a candidate is named like the token.
C18_NumberSkipsMatching ==
  (call.op = "resolve_role" /\ Positional(call.user_input) /\ call.fetch_raises = "none") =>
    /\ pc = "done"
    /\ engine_calls = 0
    /\ extractor_calls = 0
    /\ matches = << >>
    /\ reads = 0
    /\ LET N == PositionOf(call.user_input)
       IN IF 1 <= N /\ N <= Len(call.candidates)
            THEN result = Some(call.candidates[N])
            ELSE result = None /\ Printed("invalid_number")

\* resolve_role took the first role for "1" although the second role is named "1".
C18_Witness ==
  /\ call.op = "resolve_role"
  /\ pc = "done"
  /\ call.user_input = <<"1">>
  /\ Len(call.candidates) >= 2
  /\ call.candidates[2].name = <<"1">>
  /\ result = Some(call.candidates[1])
  /\ engine_calls = 0

\* The ordering numeric addressing is meant to index: the configured aliases
\* in stored order, then the roles of the request in response order.
Ordering(request) ==
  AliasRoles(aliases) \o normalize_roles(upstream[request].roles)

\* The entry of the ordering at position n, if there is one.
EntryAt(request, n) ==
  IF 1 <= n /\ n <= Len(Ordering(request)) THEN Some(Ordering(request)[n]) ELSE None

\* C19: in resolve_role and in activate a positional token N selects entry N of
\* the aliases followed by the remote roles: alias N for N up to the number of
\* aliases, remote role N - k after k aliases.
C19_AliasesThenRemote ==
  (NumericPathEnded /\ Positional(call.user_input) /\ call.fetched) =>
    result = EntryAt(call.scope, PositionOf(call.user_input))

\* activate has run with a positional token and the --resource and --scope of
\* the listing on the screen, over the aliases and role data the listing was
\* made from.
ActivateAfterList ==
  /\ call.op = "activate"
  /\ pc = "done"
  /\ Positional(call.user_input)
  /\ displayed.shown
  /\ displayed.resource = call.resource
  /\ displayed.scope = call.scope_arg
  /\ displayed.aliases = aliases
  /\ displayed.upstream = upstream

\* C20: activate by number after a listing with the same arguments and
\* unchanged data selects the role the listing shows at that number.
C20_ActivateSelectsDisplayed ==
  ActivateAfterList =>
    \A i \in DOMAIN displayed.entries :
      displayed.entries[i].number = PositionOf(call.user_input) =>
        result = Some(displayed.entries[i].role)

\* The similarity the program reports for a candidate name: the score a Match
\* of the fuzzy tier carries, by the installed backend.
Similarity(user_input, name) ==
  IF HAS_RAPIDFUZZ THEN FuzzRatio(user_input, name) ELSE SeqRatio(user_input, name)

\* The positions of the candidates whose similarity reaches the threshold.
Qualifying ==
  {i \in DOMAIN call.candidates :
     AtLeastPct(Similarity(call.user_input, CandidateName(i)), fuzzy_threshold)}

\* _find_matches has come to its fuzzy tier in the call.
FuzzyTierRan ==
  /\ call.op = "resolve"
  /\ engine_calls > 0
  /\ fuzzy_enabled
  /\ ~ExactSat /\ ~CISat /\ ~PrefixSat

\* The positions of the candidates the matches refer to.
MatchedPositions == {matches[i].item.id : i \in DOMAIN matches}

\* C21: the fuzzy tier returns exactly the candidates whose similarity to the
\* input is at least fuzzy_threshold, however many they are: each match scores
\* at least the threshold and no qualifying candidate is missing.
C21_FuzzyTierExact ==
  FuzzyTierRan =>
    /\ MatchedPositions = Qualifying
    /\ \A i \in DOMAIN matches : AtLeastPct(matches[i].score, fuzzy_threshold)

\* The failures of C21, one by one: more than ten qualifying names with
\* difflib, a match scored below the threshold, a candidate hidden by a later
\* one of the same name.
TenOfEleven ==
  FuzzyTierRan /\ Cardinality(Qualifying) = 11 /\ Len(matches) = 10

MatchBelowThreshold ==
  FuzzyTierRan /\ \E i \in DOMAIN matches : ~AtLeastPct(matches[i].score, fuzzy_threshold)

\* With different names and at most ten of them passing difflib's filter the
\* rapidfuzz tier is exact.
RapidfuzzExactOnDistinctNames ==
  (FuzzyTierRan /\ HAS_RAPIDFUZZ
     /\ \A i, j \in DOMAIN call.candidates : i # j => CandidateName(i) # CandidateName(j)) =>
    /\ MatchedPositions = Qualifying
    /\ \A i \in DOMAIN matches : AtLeastPct(matches[i].score, fuzzy_threshold)

\* The matches are in descending order of score, and of two matches with equal
\* scores the one whose candidate comes first in the list comes first.
RankedByScoreThenPosition ==
  \A i, j \in DOMAIN matches :
    i < j =>
      /\ ScoreGE(matches[i].score, matches[j].score)
      /\ ScoreEQ(matches[i].score, matches[j].score) =>
           matches[i].item.id <= matches[j].item.id

\* C22: the matches of the fuzzy tier are ordered by score descending, equal
\* scores in the order of the candidate list.
C22_FuzzyOrder == FuzzyTierRan => RankedByScoreThenPosition

\* difflib returned two names of equal score in reverse list order.
TieReversed ==
  /\ FuzzyTierRan /\ ~HAS_RAPIDFUZZ
  /\ Len(matches) = 2
  /\ matches[1].item.id = 2 /\ matches[2].item.id = 1
  /\ ScoreEQ(matches[1].score, matches[2].score)

\* With rapidfuzz and different names the order is as stated.
RapidfuzzOrderOnDistinctNames ==
  (FuzzyTierRan /\ HAS_RAPIDFUZZ
     /\ \A i, j \in DOMAIN call.candidates : i # j => CandidateName(i) # CandidateName(j)) =>
    RankedByScoreThenPosition

\* C23: with fuzzy matching disabled no match is a fuzzy one, and an input
\* that no candidate equals, equals ignoring case or starts with gets an empty
\* match list: resolve() reports "not found" and returns absent, also when a
\* candidate's similarity reaches the threshold.
C23_FuzzyDisabled ==
  (call.op = "resolve" /\ engine_calls > 0 /\ ~fuzzy_enabled) =>
    /\ \A i \in DOMAIN matches : matches[i].strategy # FUZZY
    /\ (~ExactSat /\ ~CISat /\ ~PrefixSat) =>
         /\ matches = << >>
         /\ pc = "done"
         /\ result = None
         /\ raised = "none"
         /\ Printed("not_found")

\* resolve() returned absent with fuzzy matching disabled although a candidate
\* is similar enough to the input.
C23_Witness ==
  /\ call.op = "resolve" /\ engine_calls > 0 /\ ~fuzzy_enabled
  /\ ~ExactSat /\ ~CISat /\ ~PrefixSat
  /\ Qualifying # {}
  /\ matches = << >> /\ result = None

\* The failure resolve() met, read off its inputs and its match list.
ResolveFailure ==
  IF call.candidates = << >> THEN "no_candidates"
  ELSE IF call.user_input = << >> THEN "input_required"
  ELSE IF matches = << >> THEN "not_found"
  ELSE IF ~CanPrompt(call.allow_interactive) THEN "multiple_matches"
  ELSE "cancelled"

ElementOfCandidates(item) ==
  \E i \in DOMAIN call.candidates : call.candidates[i] = item

C24_AmbiguityWithoutPrompt ==
  /\ call.op = "resolve" /\ pc = "done" /\ result = None
  /\ ResolveFailure = "multiple_matches"
C24_Resolved ==
  /\ call.op = "resolve" /\ pc = "done" /\ result # None

\* What the settings of the defaults section amount to.
Configured(defaults) ==
  [fuzzy_enabled |-> IF defaults.fuzzy_matching = None THEN TRUE
                     ELSE defaults.fuzzy_matching[1],
   fuzzy_threshold |-> IF defaults.fuzzy_threshold = None THEN DefaultThreshold
                       ELSE defaults.fuzzy_threshold[1],
   cache_ttl_seconds |-> IF defaults.cache_ttl_seconds = None THEN DefaultTTL
                         ELSE defaults.cache_ttl_seconds[1]]

BuiltAsConfigured ==
  /\ raised = "none"
  /\ result # None
  /\ fuzzy_enabled = Configured(call.defaults).fuzzy_enabled
  /\ fuzzy_threshold = Configured(call.defaults).fuzzy_threshold
  /\ cache_ttl_seconds = Configured(call.defaults).cache_ttl_seconds

\* C25: get_resolver(config) with the Config of cli.py completes without
\* error and returns a resolver holding the configured settings, true, 0.8
\* and 300 standing in for those not set.
C25_GetResolverCompletes ==
  (call.op = "get_resolver" /\ call.config_class = "Config") => BuiltAsConfigured

\* With a configuration object whose get_default takes a fallback the resolver
\* is built as configured.
C25_BuiltFromAdapter ==
  (call.op = "get_resolver" /\ call.config_class = "EnhancedConfig") => BuiltAsConfigured

\* get_resolver raised TypeError on the Config of cli.py.
C25_TypeError ==
  /\ call.op = "get_resolver" /\ call.config_class = "Config"
  /\ raised = "TypeError" /\ result = None
C25_DefaultsUsed ==
  /\ call.op = "get_resolver" /\ call.config_class = "EnhancedConfig"
  /\ call.defaults.cache_ttl_seconds = None /\ cache_ttl_seconds = DefaultTTL

\* The similarity _get_suggestions ranks a name by: fuzz.ratio, or the ratio
\* get_close_matches computes with the name as first sequence.
SuggestionSimilarity(name) ==
  IF HAS_RAPIDFUZZ THEN FuzzRatio(call.user_input, name)
  ELSE SeqRatio(name, call.user_input)

\* resolve() found no match and printed the NoMatch diagnostic.
NoMatchPrinted ==
  /\ call.op = "resolve" /\ pc = "done" /\ engine_calls > 0 /\ matches = << >>
  /\ Len(out) = 1 /\ out[1].kind = "not_found"

SuggestionsDescending ==
  \A k \in 1..(Len(out[1].names) - 1) :
    ScoreGE(SuggestionSimilarity(out[1].names[k]),
            SuggestionSimilarity(out[1].names[k + 1]))

\* C26: every suggested name has a similarity to the input of at least the
\* suggestion cutoff, and the suggestions are in descending similarity.
C26_SuggestionsAboveCutoff ==
  NoMatchPrinted =>
    /\ \A k \in DOMAIN out[1].names :
         AtLeastPct(SuggestionSimilarity(out[1].names[k]), SuggestionCutoff)
    /\ SuggestionsDescending

\* A name sharing no character with the input is suggested.
C26_UnrelatedSuggested ==
  /\ NoMatchPrinted
  /\ \E k \in DOMAIN out[1].names :
       SuggestionSimilarity(out[1].names[k]) = <<0, Len(out[1].names[k]) + Len(call.user_input)>>

\* Without rapidfuzz the cutoff is applied, and with either backend the
\* suggestions are in descending similarity.
C26_CutoffInFallback ==
  NoMatchPrinted =>
    /\ ~HAS_RAPIDFUZZ =>
         \A k \in DOMAIN out[1].names :
           AtLeastPct(SuggestionSimilarity(out[1].names[k]), SuggestionCutoff)
    /\ SuggestionsDescending
C26_FallbackSuggests ==
  NoMatchPrinted /\ ~HAS_RAPIDFUZZ /\ Len(out[1].names) > 1

\* resolve() met several matches and could not prompt.
AmbiguousWithoutPrompt ==
  /\ call.op = "resolve" /\ pc = "done" /\ engine_calls > 0
  /\ Len(matches) > 1
  /\ ~CanPrompt(call.allow_interactive)

\* C27: the diagnostic for n matches without a prompt lists the names of the
\* first min(5, n) matches in match order; it states "...and n - 5 more" when
\* n > 5 and no overflow otherwise (`more` is 0 when the line is not printed).
C27_ListedAndOverflow ==
  AmbiguousWithoutPrompt =>
    LET n == Len(matches)
    IN /\ Len(out) = 1
       /\ out[1].kind = "multiple_matches"
       /\ Len(out[1].names) = Min(5, n)
       /\ \A k \in DOMAIN out[1].names : out[1].names[k] = matches[k].name
       /\ out[1].more = IF n > 5 THEN n - 5 ELSE 0

\* Seven matches: five names listed, "and 2 more".
C27_Witness ==
  /\ AmbiguousWithoutPrompt
  /\ Len(matches) = 7
  /\ Len(out[1].names) = 5
  /\ out[1].more = 2
C27_ExactlyFive ==
  /\ AmbiguousWithoutPrompt
  /\ Len(matches) <= 5 /\ Len(matches) = Len(out[1].names) /\ out[1].more = 0

\* The positions of the candidates that satisfy the criterion of the tier
\* that won: the first tier some candidate satisfies.
WinningPositions ==
  LET P == DOMAIN call.candidates
  IN IF ExactSat THEN {i \in P : CandidateName(i) = call.user_input}
     ELSE IF CISat THEN {i \in P : Lower(CandidateName(i)) = Lower(call.user_input)}
     ELSE IF PrefixSat
       THEN {i \in P : StartsWith(Lower(CandidateName(i)), Lower(call.user_input))}
     ELSE IF fuzzy_enabled THEN Qualifying
     ELSE {}

DistinctCandidates ==
  \A i, j \in DOMAIN matches : i # j => matches[i].item.id # matches[j].item.id

NamesExtracted ==
  \A i \in DOMAIN matches :
    /\ matches[i].item \in {call.candidates[k] : k \in DOMAIN call.candidates}
    /\ matches[i].name = name_extractor(matches[i].item)

\* C28: the matches of the engine refer to pairwise distinct candidates, each
\* carries its candidate's name, and every candidate satisfying the winning
\* tier's criterion is among them; in every tier.
C28_DistinctMatches ==
  (call.op = "resolve" /\ engine_calls > 0) =>
    /\ DistinctCandidates
    /\ NamesExtracted
    /\ WinningPositions \subseteq MatchedPositions

\* In the exact, case-insensitive and prefix tiers the property holds, also
\* with repeated names.
C28_FirstThreeTiers ==
  (call.op = "resolve" /\ engine_calls > 0 /\ (ExactSat \/ CISat \/ PrefixSat)) =>
    /\ DistinctCandidates
    /\ NamesExtracted
    /\ WinningPositions = MatchedPositions
C28_RepeatedNameInPrefixTier ==
  /\ call.op = "resolve" /\ engine_calls > 0 /\ ~ExactSat /\ ~CISat /\ PrefixSat
  /\ \E i, j \in DOMAIN matches : i # j /\ matches[i].name = matches[j].name

\* The fuzzy tier with rapidfuzz: two matches are the same candidate and an
\* earlier candidate of that name is in no match.
C28_SameCandidateTwice ==
  /\ FuzzyTierRan /\ HAS_RAPIDFUZZ
  /\ ~DistinctCandidates
  /\ \E i \in Qualifying : i \notin MatchedPositions

\* The picker has selected a role by the number typed last.
PickedByNumber ==
  call.op = "picker" /\ pc = "done" /\ result # None

\* The role the listing on the screen shows at a number.
ShownAt(n) ==
  {displayed.entries[k].role : k \in {j \in DOMAIN displayed.entries :
                                         displayed.entries[j].number = n}}

\* C29: the role the picker selects for the number n is the role the listing
\* on the screen, full or filtered, shows at n.
C29_NumberSelectsDisplayed ==
  PickedByNumber => ShownAt(PyInt(call.selection)[1]) = {result[1]}

\* In the full listing the number selects the role displayed at it.
C29_FullListing ==
  (PickedByNumber /\ call.listing = "full") =>
    ShownAt(PyInt(call.selection)[1]) = {result[1]}
C29_PickedFromFull ==
  PickedByNumber /\ call.listing = "full" /\ result[1].is_alias = FALSE
  /\ Len(aliases) > 0

\* The filtered listing shows an alias at 1 and the number 1 selects an Azure
\* role that scored higher.
C29_FilteredMismatch ==
  /\ PickedByNumber /\ call.listing = "filtered"
  /\ call.selection = <<"1">>
  /\ \E r \in ShownAt(1) : r.is_alias
  /\ ~result[1].is_alias

\* With the Config of cli.py the search term ends the command with TypeError.
C29_SearchRaises ==
  /\ call.op = "picker" /\ pc = "done" /\ call.config_class = "Config"
  /\ call.term # << >> /\ raised = "TypeError"

\* resolve_role has a list to resolve against.
RoleListInUse ==
  call.op = "resolve_role" /\ call.fetch_raises = "none"

\* C30: every role of the list a resolve_role call for scope S resolves
\* against, by name or by number, was fetched for S, no more than
\* cache_ttl_seconds before the call (the clock stands still during a call).
C30_ListProvenance ==
  RoleListInUse =>
    \A i \in DOMAIN call.candidates :
      LET stamp == call.candidates[i].id
      IN /\ stamp[1] = call.scope
         /\ stamp[2] <= now
         /\ now - stamp[2] <= cache_ttl_seconds
         /\ stamp[2] = call.candidates[1].id[2]
         /\ stamp[3] = i

\* A list fetched earlier for the scope is used again at the age of the TTL,
\* while a list of the other scope is stored too.
C30_Witness ==
  /\ RoleListInUse /\ ~call.fetched
  /\ call.candidates # << >>
  /\ now - call.candidates[1].id[2] = cache_ttl_seconds
  /\ result # None
  /\ \E other \in Scopes \ {call.scope} :
       RoleKey(other) \in DOMAIN cache /\ cache[RoleKey(other)].data # << >>
C30_RefetchedAfterTTL ==
  /\ RoleListInUse /\ call.fetched /\ call.candidates # << >>
  /\ now > cache_ttl_seconds
====

